---- MODULE Spec2Model ----
(***************************************************************************)
(* A model of the trigger engine of the card (TriggersManager,             *)
(* src/unnamed/part_000): the map of triggered cameras, the per-camera     *)
(* untrigger timers, the throttled trigger action and the collaborators    *)
(* the engine reads and commands (configuration, view, condition state,    *)
(* interaction tracker, card element).                                     *)
(*                                                                         *)
(* Time is a millisecond clock `now`.  Handlers run to completion (one     *)
(* action each); a timeout fires at the instant it is due, so the clock    *)
(* never advances over a pending timeout that is due.                      *)
(***************************************************************************)
EXTENDS Integers, Sequences, FiniteSets, TLC

\* ------------------------------------------------------------------------
\* Bounds of the model
\* ------------------------------------------------------------------------

\* The clock stops advancing at MaxTime (ms).
MaxTime == 2000

\* The card's cameras, and the topology store's answer for each of them.
Cameras == {"A", "B"}

\* Values of view.triggers.untrigger_seconds that are explored.
UntriggerSeconds == {0, 1}

\* Values of view.default that are explored.
DefaultViews == {"live", "clips"}

\* The engine objects one factory may construct before its callers stop.
MaxConstructed == 2

\* The dynamic menu buttons one controller may hold before its callers
\* stop adding.
MaxButtons == 4

\* ------------------------------------------------------------------------
\* Program constants
\* ------------------------------------------------------------------------

\* throttle(this._triggerAction.bind(this), 1000, {trailing: true})
ThrottleWait == 1000

\* Timer.start(seconds, func) schedules func after seconds * 1000 ms.
MsPerSecond == 1000

\* The clock advances in steps of half a throttle window.
Quantum == ThrottleWait \div 2

\* ------------------------------------------------------------------------
\* Types
\* ------------------------------------------------------------------------

TriggerActions == {"default", "live", "media", "none"}
UntriggerActions == {"default", "none"}
InteractionModes == {"all", "active", "inactive"}

\* getConfig() returning null / undefined.
NoConfig == [present |-> FALSE]

\* The parts of the configuration the engine reads: view.triggers.* and
\* view.default.
Configs ==
  [ present : {TRUE},
    filter_selected_camera : BOOLEAN,
    untrigger_seconds : UntriggerSeconds,
    trigger : TriggerActions,
    untrigger : UntriggerActions,
    interaction_mode : InteractionModes,
    default : DefaultViews ]

\* getView() returning null, or a view without a camera.
NoView == [present |-> FALSE]

\* Of the view the engine reads the selected camera only.
Views == [present : {TRUE}, camera : Cameras]

\* CameraEvent: anything but type 'end' is a start of activity.
StartEvents ==
  [ cameraID : Cameras, type : {"new"}, fidelity : {"high", "low"},
    snapshot : BOOLEAN, clip : BOOLEAN ]

\* The handler reads nothing but cameraID and type of an end event.
EndEvents ==
  [ cameraID : Cameras, type : {"end"}, fidelity : {"high"},
    snapshot : {FALSE}, clip : {FALSE} ]

CameraEvents == StartEvents \cup EndEvents

NoEvent == [present |-> FALSE]

\* undefined, for the optional numbers of the throttle.
Undefined == -1

\* The 'triggered' key of the condition state: undefined or a set of IDs.
NoTriggered == [present |-> FALSE]

TriggeredState(ids) == [present |-> TRUE, ids |-> ids]

NoCamera == "none"

\* ------------------------------------------------------------------------
\* State
\* ------------------------------------------------------------------------

VARIABLES
  now,                    \* Date.now()
  config,                 \* getConfigManager().getConfig()
  hasInteraction,         \* getInteractionManager().hasInteraction()
  view,                   \* getViewManager().getView()
  conditionState,         \* getConditionsManager().getState().triggered
  triggeredCameras,       \* _triggeredCameras: Map, in insertion order
  triggeredCameraTimers,  \* _triggeredCameraTimers: Map camera -> Timer
  timeouts,               \* the pending timeouts of the Timer objects
  throttled,              \* the state of _throttledTriggerAction
  out,                    \* what the handler that ran last did
  endAt,                  \* history: per camera, its last end event
  burst,                  \* history: the start events of the current window
  execGap,                \* history: time between the last two executions
  lastEnd,                \* history: per camera, the end event of its timer
  queued,                 \* history: the collaborators when lastArgs was set
  returned,               \* a caller's Set, returned by getTriggeredCameraIDs
  frigate,                \* a Frigate camera whose callback is the engine
  factory,                \* a CameraManagerEngineFactory and its last call
  menu                    \* a MenuButtonController and its last call

vars ==
  << now, config, hasInteraction, view, conditionState, triggeredCameras,
     triggeredCameraTimers, timeouts, throttled, out, endAt, burst, execGap,
     lastEnd, queued, returned, frigate, factory, menu >>

\* ------------------------------------------------------------------------
\* Map<string, Date> as a sequence of entries in insertion order
\* ------------------------------------------------------------------------

MapKeys(m) == {m[i].id : i \in 1..Len(m)}

MapHas(m, k) == k \in MapKeys(m)

\* Mutant of MapSet: the value of an existing key is kept.
MapSet_KeepValue(m, k, v) ==
  IF MapHas(m, k)
    THEN m
    ELSE Append(m, [id |-> k, date |-> v])

\* Map.set: an existing key keeps its position.
MapSet(m, k, v) ==
  IF MapHas(m, k)
    THEN [i \in 1..Len(m) |-> IF m[i].id = k THEN [id |-> k, date |-> v] ELSE m[i]]
    ELSE Append(m, [id |-> k, date |-> v])

MapDelete(m, k) == SelectSeq(m, LAMBDA e : e.id # k)

\* ------------------------------------------------------------------------
\* Queries
\* ------------------------------------------------------------------------

getTriggeredCameraIDs == MapKeys(triggeredCameras)

isTriggered == Len(triggeredCameras) # 0

\* Mutant of getMostRecentlyTriggeredCameraID: the entries are ordered
\* 'asc'.
getMostRecentlyTriggeredCameraID_Oldest ==
  IF Len(triggeredCameras) = 0
    THEN NoCamera
    ELSE LET m == triggeredCameras
             best == CHOOSE i \in 1..Len(m) :
                       /\ \A j \in 1..Len(m) : m[j].date >= m[i].date
                       /\ \A j \in 1..(i - 1) : m[j].date > m[i].date
         IN m[best].id

\* orderBy(entries, date, 'desc') is stable: of the entries with the latest
\* date the one first in the Map comes first.
getMostRecentlyTriggeredCameraID ==
  IF Len(triggeredCameras) = 0
    THEN NoCamera
    ELSE LET m == triggeredCameras
             best == CHOOSE i \in 1..Len(m) :
                       /\ \A j \in 1..Len(m) : m[j].date <= m[i].date
                       /\ \A j \in 1..(i - 1) : m[j].date < m[i].date
         IN m[best].id

\* ------------------------------------------------------------------------
\* The throttled trigger action: lodash throttle(func, wait, {trailing: true})
\* is debounce(func, wait, {leading: true, maxWait: wait, trailing: true}).
\* Its state: lastArgs, lastCallTime, lastInvokeTime, timerId (the instant
\* the pending setTimeout(timerExpired) is due, or Undefined).
\* ------------------------------------------------------------------------

Min(a, b) == IF a <= b THEN a ELSE b

shouldInvoke(th, time) ==
  \/ th.lastCallTime = Undefined
  \/ time - th.lastCallTime >= ThrottleWait
  \/ time - th.lastCallTime < 0
  \/ time - th.lastInvokeTime >= ThrottleWait

remainingWait(th, time) ==
  Min(ThrottleWait - (time - th.lastCallTime),
      ThrottleWait - (time - th.lastInvokeTime))

\* Mutant of throttledTriggerAction: a throttle without the leading edge
\* ({leading: false}), which never invokes func during a call.
throttledTriggerAction_TrailingOnly(th, time, ev) ==
  LET isInvoking == shouldInvoke(th, time)
      called == [th EXCEPT !.lastArgs = ev, !.lastCallTime = time]
  IN  [ th |-> [called EXCEPT !.timerId =
                  IF @ = Undefined \/ isInvoking THEN time + ThrottleWait ELSE @,
                                 !.lastInvokeTime = IF isInvoking THEN time ELSE @],
        invoked |-> NoEvent ]

\* Mutant of throttledTriggerAction: a call that does not invoke keeps the
\* arguments that are pending already.
throttledTriggerAction_KeepsFirst(th, time, ev) ==
  LET isInvoking == shouldInvoke(th, time)
      called == [th EXCEPT !.lastArgs = ev, !.lastCallTime = time]
  IN  IF isInvoking
        THEN [ th |-> [called EXCEPT !.timerId = time + ThrottleWait,
                                     !.lastArgs = NoEvent,
                                     !.lastInvokeTime = time],
               invoked |-> ev ]
        ELSE [ th |-> [called EXCEPT !.lastArgs =
                         IF th.lastArgs # NoEvent THEN th.lastArgs ELSE ev,
                                     !.timerId =
                         IF @ = Undefined THEN time + ThrottleWait ELSE @],
               invoked |-> NoEvent ]

\* One call _throttledTriggerAction(ev) at `time`: the new state of the
\* throttle and the event func is invoked with during the call, if any.
\* When the call invokes, both the leading edge (no timer pending) and the
\* maxWait branch (timer pending) restart the timer and invoke func.
throttledTriggerAction(th, time, ev) ==
  LET isInvoking == shouldInvoke(th, time)
      called == [th EXCEPT !.lastArgs = ev, !.lastCallTime = time]
  IN  IF isInvoking
        THEN [ th |-> [called EXCEPT !.timerId = time + ThrottleWait,
                                     !.lastArgs = NoEvent,
                                     !.lastInvokeTime = time],
               invoked |-> ev ]
        ELSE [ th |-> [called EXCEPT !.timerId =
                         IF @ = Undefined THEN time + ThrottleWait ELSE @],
               invoked |-> NoEvent ]

\* Mutant of timerExpired: a throttle without the trailing edge
\* ({trailing: false}), which drops lastArgs at its timeout.
timerExpired_NoTrailing(th, time) ==
  IF shouldInvoke(th, time)
    THEN [ th |-> [th EXCEPT !.timerId = Undefined, !.lastArgs = NoEvent],
           invoked |-> NoEvent ]
    ELSE [ th |-> [th EXCEPT !.timerId = time + remainingWait(th, time)],
           invoked |-> NoEvent ]

\* The throttle's timeout fires at `time`: the trailing edge invokes func
\* with lastArgs if there are any; otherwise the timer is restarted.
timerExpired(th, time) ==
  IF shouldInvoke(th, time)
    THEN [ th |-> [th EXCEPT !.timerId = Undefined,
                             !.lastArgs = NoEvent,
                             !.lastInvokeTime =
                               IF th.lastArgs # NoEvent THEN time ELSE @],
           invoked |-> th.lastArgs ]
    ELSE [ th |-> [th EXCEPT !.timerId = time + remainingWait(th, time)],
           invoked |-> NoEvent ]

\* ------------------------------------------------------------------------
\* The engine's methods
\* ------------------------------------------------------------------------

SetViewByParameters(viewName, cameraID) ==
  [cmd |-> "setViewByParameters", viewName |-> viewName, cameraID |-> cameraID]

SetViewDefault(cameraID) ==
  [cmd |-> "setViewDefault", viewName |-> "default", cameraID |-> cameraID]

\* getAllDependentCameras(selectedCameraID): B is a substream of A.
getAllDependentCameras(cameraID) ==
  IF cameraID = "A" THEN {"A", "B"} ELSE {cameraID}

\* Mutant of hasAllowableInteractionStateForAction: 'active' and 'inactive'
\* are taken for each other.
hasAllowableInteractionStateForAction_Swapped ==
  /\ config.present
  /\ \/ config.interaction_mode = "all"
     \/ config.interaction_mode = "active" /\ ~hasInteraction
     \/ config.interaction_mode = "inactive" /\ hasInteraction

hasAllowableInteractionStateForAction ==
  /\ config.present
  /\ \/ config.interaction_mode = "all"
     \/ config.interaction_mode = "active" /\ hasInteraction
     \/ config.interaction_mode = "inactive" /\ ~hasInteraction

\* Mutant of triggerAction: the 'media' branch does not ask for a
\* high-fidelity event.
triggerAction_MediaAnyFidelity(ev) ==
  LET action == IF config.present THEN config.trigger ELSE "undefined"
      defaultView == IF config.present THEN config.default ELSE "undefined"
  IN  IF /\ ev.fidelity = "high"
         /\ ~ev.snapshot
         /\ ~ev.clip
         /\ ~(action = "live" \/ (action = "default" /\ defaultView = "live"))
        THEN [navs |-> <<>>, updates |-> 0]
        ELSE [ navs |->
                 IF hasAllowableInteractionStateForAction
                   THEN IF action = "live"
                          THEN <<SetViewByParameters("live", ev.cameraID)>>
                        ELSE IF action = "default"
                          THEN <<SetViewDefault(ev.cameraID)>>
                        ELSE IF action = "media"
                          THEN <<SetViewByParameters(
                                   IF ev.clip THEN "clip" ELSE "snapshot",
                                   ev.cameraID)>>
                        ELSE <<>>
                   ELSE <<>>,
               updates |-> 1 ]

\* Mutant of triggerAction: the 'media' branch prefers the snapshot to the
\* clip.
triggerAction_SnapshotFirst(ev) ==
  LET action == IF config.present THEN config.trigger ELSE "undefined"
      defaultView == IF config.present THEN config.default ELSE "undefined"
  IN  IF /\ ev.fidelity = "high"
         /\ ~ev.snapshot
         /\ ~ev.clip
         /\ ~(action = "live" \/ (action = "default" /\ defaultView = "live"))
        THEN [navs |-> <<>>, updates |-> 0]
        ELSE [ navs |->
                 IF hasAllowableInteractionStateForAction
                   THEN IF action = "live"
                          THEN <<SetViewByParameters("live", ev.cameraID)>>
                        ELSE IF action = "default"
                          THEN <<SetViewDefault(ev.cameraID)>>
                        ELSE IF ev.fidelity = "high" /\ action = "media"
                          THEN <<SetViewByParameters(
                                   IF ev.snapshot THEN "snapshot" ELSE "clip",
                                   ev.cameraID)>>
                        ELSE <<>>
                   ELSE <<>>,
               updates |-> 1 ]

\* Mutant of triggerAction: the UI refresh is requested only after a
\* navigation.
triggerAction_RefreshWhenNavigated(ev) ==
  LET action == IF config.present THEN config.trigger ELSE "undefined"
      defaultView == IF config.present THEN config.default ELSE "undefined"
      navs == IF hasAllowableInteractionStateForAction
                THEN IF action = "live"
                       THEN <<SetViewByParameters("live", ev.cameraID)>>
                     ELSE IF action = "default"
                       THEN <<SetViewDefault(ev.cameraID)>>
                     ELSE IF ev.fidelity = "high" /\ action = "media"
                       THEN <<SetViewByParameters(
                                IF ev.clip THEN "clip" ELSE "snapshot",
                                ev.cameraID)>>
                     ELSE <<>>
                ELSE <<>>
  IN  IF /\ ev.fidelity = "high"
         /\ ~ev.snapshot
         /\ ~ev.clip
         /\ ~(action = "live" \/ (action = "default" /\ defaultView = "live"))
        THEN [navs |-> <<>>, updates |-> 0]
        ELSE [navs |-> navs, updates |-> IF navs = <<>> THEN 0 ELSE 1]

\* _triggerAction(ev): the navigation commands issued and the number of
\* calls of getCardElementManager().update().
triggerAction(ev) ==
  LET action == IF config.present THEN config.trigger ELSE "undefined"
      defaultView == IF config.present THEN config.default ELSE "undefined"
  IN  IF /\ ev.fidelity = "high"
         /\ ~ev.snapshot
         /\ ~ev.clip
         /\ ~(action = "live" \/ (action = "default" /\ defaultView = "live"))
        THEN [navs |-> <<>>, updates |-> 0]
        ELSE [ navs |->
                 IF hasAllowableInteractionStateForAction
                   THEN IF action = "live"
                          THEN <<SetViewByParameters("live", ev.cameraID)>>
                        ELSE IF action = "default"
                          THEN <<SetViewDefault(ev.cameraID)>>
                        ELSE IF ev.fidelity = "high" /\ action = "media"
                          THEN <<SetViewByParameters(
                                   IF ev.clip THEN "clip" ELSE "snapshot",
                                   ev.cameraID)>>
                        ELSE <<>>
                   ELSE <<>>,
               updates |-> 1 ]

\* Mutant of setConditionStateIfNecessary: the state is published only
\* when the interaction gate permits an action.
setConditionStateIfNecessary_Gated(m, cs) ==
  LET triggeredCameraIDs == MapKeys(m)
      triggeredState == IF triggeredCameraIDs # {}
                          THEN TriggeredState(triggeredCameraIDs)
                          ELSE NoTriggered
  IN  IF triggeredState # cs /\ hasAllowableInteractionStateForAction
        THEN [state |-> triggeredState, writes |-> 1]
        ELSE [state |-> cs, writes |-> 0]

\* Mutant of setConditionStateIfNecessary: an empty Set is published as it
\* is, not as undefined.
setConditionStateIfNecessary_EmptySet(m, cs) ==
  LET triggeredCameraIDs == MapKeys(m)
      triggeredState == TriggeredState(triggeredCameraIDs)
  IN  IF triggeredState # cs
        THEN [state |-> triggeredState, writes |-> 1]
        ELSE [state |-> cs, writes |-> 0]

\* Mutant of setConditionStateIfNecessary: the state is written without the
\* comparison.
setConditionStateIfNecessary_Always(m, cs) ==
  LET triggeredCameraIDs == MapKeys(m)
      triggeredState == IF triggeredCameraIDs # {}
                          THEN TriggeredState(triggeredCameraIDs)
                          ELSE NoTriggered
  IN  [state |-> triggeredState, writes |-> 1]

\* _setConditionStateIfNecessary(), for the Map m and the published value
\* cs: the value published afterwards and the number of setState calls.
setConditionStateIfNecessary(m, cs) ==
  LET triggeredCameraIDs == MapKeys(m)
      triggeredState == IF triggeredCameraIDs # {}
                          THEN TriggeredState(triggeredCameraIDs)
                          ELSE NoTriggered
  IN  IF triggeredState # cs
        THEN [state |-> triggeredState, writes |-> 1]
        ELSE [state |-> cs, writes |-> 0]

\* Mutant of deleteTimer: the entry is dropped and the timer not stopped.
deleteTimer_NoStop(timers, pending, cameraID) ==
  IF cameraID \in DOMAIN timers
    THEN [ timers |-> [c \in DOMAIN timers \ {cameraID} |-> timers[c]],
           pending |-> pending ]
    ELSE [timers |-> timers, pending |-> pending]

\* _deleteTimer(cameraID): stop the camera's timer and drop its entry.
deleteTimer(timers, pending, cameraID) ==
  IF cameraID \in DOMAIN timers
    THEN [ timers |-> [c \in DOMAIN timers \ {cameraID} |-> timers[c]],
           pending |-> pending \ {timers[cameraID]} ]
    ELSE [timers |-> timers, pending |-> pending]

\* Mutant of startUntriggerTimer: the timer is started with 0 seconds,
\* whatever untrigger_seconds is.
startUntriggerTimer_Immediate(timers, pending, cameraID) ==
  LET d == deleteTimer(timers, pending, cameraID)
      timer == [cameraID |-> cameraID, due |-> now]
  IN  [ timers |-> [c \in DOMAIN d.timers \cup {cameraID} |->
                      IF c = cameraID THEN timer ELSE d.timers[c]],
        pending |-> d.pending \cup {timer} ]

\* _startUntriggerTimer(cameraID).
startUntriggerTimer(timers, pending, cameraID) ==
  LET d == deleteTimer(timers, pending, cameraID)
      seconds == IF config.present THEN config.untrigger_seconds ELSE 0
      timer == [cameraID |-> cameraID, due |-> now + seconds * MsPerSecond]
  IN  [ timers |-> [c \in DOMAIN d.timers \cup {cameraID} |->
                      IF c = cameraID THEN timer ELSE d.timers[c]],
        pending |-> d.pending \cup {timer} ]

\* The view the view manager shows after a command; setViewDefault()
\* without a camera leaves the choice of the camera to the view manager.
viewAfter(nav, chosen) ==
  [ present |-> TRUE,
    camera |-> IF nav.cameraID = NoCamera THEN chosen ELSE nav.cameraID ]

viewAfterAll(navs, chosen) ==
  IF Len(navs) = 0 THEN view ELSE viewAfter(navs[Len(navs)], chosen)

Out(op, ev, accepted, navs, writes, updates, executed) ==
  [ op |-> op, ev |-> ev, accepted |-> accepted, navs |-> navs,
    writes |-> writes, updates |-> updates, executed |-> executed ]

Quiet(op) == Out(op, NoEvent, FALSE, <<>>, 0, 0, NoEvent)

\* The calls a handler made on the collaborators and the Maps, in the order
\* of its statements, for what the handler did (o).
navigationEffects(o) == [i \in 1..Len(o.navs) |-> o.navs[i].cmd]

\* _triggerAction: the navigation command, then update().
triggerActionEffects(o) ==
  IF o.executed = NoEvent
    THEN <<>>
    ELSE navigationEffects(o) \o (IF o.updates = 1 THEN <<"update">> ELSE <<>>)

\* handleCameraEvent: for an end event _startUntriggerTimer (_deleteTimer,
\* then Map.set and Timer.start); for a start event Map.set, then setState if
\* necessary, then the throttled action and what it runs at once.
handleCameraEventEffects(o) ==
  IF ~o.accepted
    THEN <<>>
  ELSE IF o.ev.type = "end"
    THEN <<"deleteTimer", "startTimer">>
  ELSE <<"set">> \o (IF o.writes = 1 THEN <<"setState">> ELSE <<>>)
         \o <<"throttle">> \o triggerActionEffects(o)

\* _untriggerAction: setViewDefault, then Map.delete, _deleteTimer, setState
\* if necessary, update().
untriggerActionEffects(o) ==
  navigationEffects(o) \o <<"delete", "deleteTimer">>
    \o (IF o.writes = 1 THEN <<"setState">> ELSE <<>>) \o <<"update">>

effectsOf(o) ==
  IF o.op = "handleCameraEvent" THEN handleCameraEventEffects(o)
  ELSE IF o.op = "timerExpired" THEN triggerActionEffects(o)
  ELSE IF o.op = "untriggerAction" THEN untriggerActionEffects(o)
  ELSE <<>>

\* ------------------------------------------------------------------------
\* Initial state: the engine as constructed.  The collaborators' states
\* (configuration, view, interaction) are drawn by each specification.
\* ------------------------------------------------------------------------

NoEnd == [present |-> FALSE]

NoQueued == [present |-> FALSE]

\* No Set has been handed to a caller.
NoReturn == [present |-> FALSE]

\* An environment without a Frigate camera.
NoFrigate == [present |-> FALSE]

Constructed ==
  /\ now = 0
  /\ conditionState = NoTriggered
  /\ triggeredCameras = <<>>
  /\ triggeredCameraTimers = <<>>
  /\ timeouts = {}
  /\ throttled = [ lastArgs |-> NoEvent, lastCallTime |-> Undefined,
                   lastInvokeTime |-> 0, timerId |-> Undefined ]
  /\ out = Quiet("init")
  /\ endAt = [c \in Cameras |-> NoEnd]
  /\ burst = <<>>
  /\ execGap = [last |-> Undefined, gap |-> Undefined]
  /\ lastEnd = [c \in Cameras |-> NoEnd]
  /\ queued = NoQueued
  /\ returned = NoReturn

\* ------------------------------------------------------------------------
\* Actions
\* ------------------------------------------------------------------------

\* Mutant of handleCameraEvent: the guard asks for the configuration only;
\* without a selected camera no event is filtered.
handleCameraEvent_NoViewGuard(ev) ==
  IF ~config.present
    THEN /\ out' = Out("handleCameraEvent", ev, FALSE, <<>>, 0, 0, NoEvent)
         /\ UNCHANGED << now, config, hasInteraction, view, conditionState,
                         triggeredCameras, triggeredCameraTimers, timeouts,
                         throttled >>
  ELSE IF /\ config.filter_selected_camera
          /\ view.present
          /\ ev.cameraID \notin getAllDependentCameras(view.camera)
    THEN /\ out' = Out("handleCameraEvent", ev, FALSE, <<>>, 0, 0, NoEvent)
         /\ UNCHANGED << now, config, hasInteraction, view, conditionState,
                         triggeredCameras, triggeredCameraTimers, timeouts,
                         throttled >>
  ELSE IF ev.type = "end"
    THEN LET s == startUntriggerTimer(triggeredCameraTimers, timeouts, ev.cameraID)
         IN  /\ triggeredCameraTimers' = s.timers
             /\ timeouts' = s.pending
             /\ out' = Out("handleCameraEvent", ev, TRUE, <<>>, 0, 0, NoEvent)
             /\ UNCHANGED << now, config, hasInteraction, view, conditionState,
                             triggeredCameras, throttled >>
  ELSE LET m == MapSet(triggeredCameras, ev.cameraID, now)
           p == setConditionStateIfNecessary(m, conditionState)
           t == throttledTriggerAction(throttled, now, ev)
           a == IF t.invoked # NoEvent
                  THEN triggerAction(t.invoked)
                  ELSE [navs |-> <<>>, updates |-> 0]
       IN  /\ triggeredCameras' = m
           /\ conditionState' = p.state
           /\ throttled' = t.th
           /\ view' = viewAfterAll(a.navs, NoCamera)
           /\ out' = Out("handleCameraEvent", ev, TRUE, a.navs, p.writes,
                         a.updates, t.invoked)
           /\ UNCHANGED << now, config, hasInteraction, triggeredCameraTimers,
                           timeouts >>

\* Mutant of handleCameraEvent: filter_selected_camera is not read.
handleCameraEvent_NoFilter(ev) ==
  IF ~config.present \/ ~view.present
    THEN /\ out' = Out("handleCameraEvent", ev, FALSE, <<>>, 0, 0, NoEvent)
         /\ UNCHANGED << now, config, hasInteraction, view, conditionState,
                         triggeredCameras, triggeredCameraTimers, timeouts,
                         throttled >>
  ELSE IF ev.type = "end"
    THEN LET s == startUntriggerTimer(triggeredCameraTimers, timeouts, ev.cameraID)
         IN  /\ triggeredCameraTimers' = s.timers
             /\ timeouts' = s.pending
             /\ out' = Out("handleCameraEvent", ev, TRUE, <<>>, 0, 0, NoEvent)
             /\ UNCHANGED << now, config, hasInteraction, view, conditionState,
                             triggeredCameras, throttled >>
  ELSE LET m == MapSet(triggeredCameras, ev.cameraID, now)
           p == setConditionStateIfNecessary(m, conditionState)
           t == throttledTriggerAction(throttled, now, ev)
           a == IF t.invoked # NoEvent
                  THEN triggerAction(t.invoked)
                  ELSE [navs |-> <<>>, updates |-> 0]
       IN  /\ triggeredCameras' = m
           /\ conditionState' = p.state
           /\ throttled' = t.th
           /\ view' = viewAfterAll(a.navs, NoCamera)
           /\ out' = Out("handleCameraEvent", ev, TRUE, a.navs, p.writes,
                         a.updates, t.invoked)
           /\ UNCHANGED << now, config, hasInteraction, triggeredCameraTimers,
                           timeouts >>

\* Mutant of handleCameraEvent: the condition state is published before the
\* camera is put in the triggered set.
handleCameraEvent_PublishBeforeSet(ev) ==
  IF ~config.present \/ ~view.present
    THEN /\ out' = Out("handleCameraEvent", ev, FALSE, <<>>, 0, 0, NoEvent)
         /\ UNCHANGED << now, config, hasInteraction, view, conditionState,
                         triggeredCameras, triggeredCameraTimers, timeouts,
                         throttled >>
  ELSE IF /\ config.filter_selected_camera
          /\ ev.cameraID \notin getAllDependentCameras(view.camera)
    THEN /\ out' = Out("handleCameraEvent", ev, FALSE, <<>>, 0, 0, NoEvent)
         /\ UNCHANGED << now, config, hasInteraction, view, conditionState,
                         triggeredCameras, triggeredCameraTimers, timeouts,
                         throttled >>
  ELSE IF ev.type = "end"
    THEN LET s == startUntriggerTimer(triggeredCameraTimers, timeouts, ev.cameraID)
         IN  /\ triggeredCameraTimers' = s.timers
             /\ timeouts' = s.pending
             /\ out' = Out("handleCameraEvent", ev, TRUE, <<>>, 0, 0, NoEvent)
             /\ UNCHANGED << now, config, hasInteraction, view, conditionState,
                             triggeredCameras, throttled >>
  ELSE LET m == MapSet(triggeredCameras, ev.cameraID, now)
           p == setConditionStateIfNecessary(triggeredCameras, conditionState)
           t == throttledTriggerAction(throttled, now, ev)
           a == IF t.invoked # NoEvent
                  THEN triggerAction(t.invoked)
                  ELSE [navs |-> <<>>, updates |-> 0]
       IN  /\ triggeredCameras' = m
           /\ conditionState' = p.state
           /\ throttled' = t.th
           /\ view' = viewAfterAll(a.navs, NoCamera)
           /\ out' = Out("handleCameraEvent", ev, TRUE, a.navs, p.writes,
                         a.updates, t.invoked)
           /\ UNCHANGED << now, config, hasInteraction, triggeredCameraTimers,
                           timeouts >>

\* Mutant of handleCameraEvent: the filter on the selected camera is applied
\* to start events only.
handleCameraEvent_EndUnfiltered(ev) ==
  IF ~config.present \/ ~view.present
    THEN /\ out' = Out("handleCameraEvent", ev, FALSE, <<>>, 0, 0, NoEvent)
         /\ UNCHANGED << now, config, hasInteraction, view, conditionState,
                         triggeredCameras, triggeredCameraTimers, timeouts,
                         throttled >>
  ELSE IF /\ config.filter_selected_camera
          /\ ev.type # "end"
          /\ ev.cameraID \notin getAllDependentCameras(view.camera)
    THEN /\ out' = Out("handleCameraEvent", ev, FALSE, <<>>, 0, 0, NoEvent)
         /\ UNCHANGED << now, config, hasInteraction, view, conditionState,
                         triggeredCameras, triggeredCameraTimers, timeouts,
                         throttled >>
  ELSE IF ev.type = "end"
    THEN LET s == startUntriggerTimer(triggeredCameraTimers, timeouts, ev.cameraID)
         IN  /\ triggeredCameraTimers' = s.timers
             /\ timeouts' = s.pending
             /\ out' = Out("handleCameraEvent", ev, TRUE, <<>>, 0, 0, NoEvent)
             /\ UNCHANGED << now, config, hasInteraction, view, conditionState,
                             triggeredCameras, throttled >>
  ELSE LET m == MapSet(triggeredCameras, ev.cameraID, now)
           p == setConditionStateIfNecessary(m, conditionState)
           t == throttledTriggerAction(throttled, now, ev)
           a == IF t.invoked # NoEvent
                  THEN triggerAction(t.invoked)
                  ELSE [navs |-> <<>>, updates |-> 0]
       IN  /\ triggeredCameras' = m
           /\ conditionState' = p.state
           /\ throttled' = t.th
           /\ view' = viewAfterAll(a.navs, NoCamera)
           /\ out' = Out("handleCameraEvent", ev, TRUE, a.navs, p.writes,
                         a.updates, t.invoked)
           /\ UNCHANGED << now, config, hasInteraction, triggeredCameraTimers,
                           timeouts >>

\* handleCameraEvent(ev), with the call of _triggerAction the throttle
\* makes during it.
handleCameraEvent(ev) ==
  IF ~config.present \/ ~view.present
    THEN /\ out' = Out("handleCameraEvent", ev, FALSE, <<>>, 0, 0, NoEvent)
         /\ UNCHANGED << now, config, hasInteraction, view, conditionState,
                         triggeredCameras, triggeredCameraTimers, timeouts,
                         throttled >>
  ELSE IF /\ config.filter_selected_camera
          /\ ev.cameraID \notin getAllDependentCameras(view.camera)
    THEN /\ out' = Out("handleCameraEvent", ev, FALSE, <<>>, 0, 0, NoEvent)
         /\ UNCHANGED << now, config, hasInteraction, view, conditionState,
                         triggeredCameras, triggeredCameraTimers, timeouts,
                         throttled >>
  ELSE IF ev.type = "end"
    THEN LET s == startUntriggerTimer(triggeredCameraTimers, timeouts, ev.cameraID)
         IN  /\ triggeredCameraTimers' = s.timers
             /\ timeouts' = s.pending
             /\ out' = Out("handleCameraEvent", ev, TRUE, <<>>, 0, 0, NoEvent)
             /\ UNCHANGED << now, config, hasInteraction, view, conditionState,
                             triggeredCameras, throttled >>
  ELSE LET m == MapSet(triggeredCameras, ev.cameraID, now)
           p == setConditionStateIfNecessary(m, conditionState)
           t == throttledTriggerAction(throttled, now, ev)
           a == IF t.invoked # NoEvent
                  THEN triggerAction(t.invoked)
                  ELSE [navs |-> <<>>, updates |-> 0]
       IN  /\ triggeredCameras' = m
           /\ conditionState' = p.state
           /\ throttled' = t.th
           /\ view' = viewAfterAll(a.navs, NoCamera)
           /\ out' = Out("handleCameraEvent", ev, TRUE, a.navs, p.writes,
                         a.updates, t.invoked)
           /\ UNCHANGED << now, config, hasInteraction, triggeredCameraTimers,
                           timeouts >>

\* _triggerAction(ev) as it would run with the configuration cfg and the
\* interaction state interaction.
triggerActionAsOf(ev, cfg, interaction) ==
  LET action == IF cfg.present THEN cfg.trigger ELSE "undefined"
      defaultView == IF cfg.present THEN cfg.default ELSE "undefined"
      allowed == /\ cfg.present
                 /\ \/ cfg.interaction_mode = "all"
                    \/ cfg.interaction_mode = "active" /\ interaction
                    \/ cfg.interaction_mode = "inactive" /\ ~interaction
  IN  IF /\ ev.fidelity = "high"
         /\ ~ev.snapshot
         /\ ~ev.clip
         /\ ~(action = "live" \/ (action = "default" /\ defaultView = "live"))
        THEN [navs |-> <<>>, updates |-> 0]
        ELSE [ navs |->
                 IF allowed
                   THEN IF action = "live"
                          THEN <<SetViewByParameters("live", ev.cameraID)>>
                        ELSE IF action = "default"
                          THEN <<SetViewDefault(ev.cameraID)>>
                        ELSE IF ev.fidelity = "high" /\ action = "media"
                          THEN <<SetViewByParameters(
                                   IF ev.clip THEN "clip" ELSE "snapshot",
                                   ev.cameraID)>>
                        ELSE <<>>
                   ELSE <<>>,
               updates |-> 1 ]

\* Mutant of ThrottleTimerExpired: the deferred action decides with the
\* configuration and the interaction state of the call that enqueued its
\* event.
ThrottleTimerExpired_Snapshot ==
  /\ throttled.timerId # Undefined
  /\ throttled.timerId <= now
  /\ LET t == timerExpired(throttled, now)
         a == IF t.invoked # NoEvent
                THEN IF queued.present
                       THEN triggerActionAsOf(t.invoked, queued.config,
                                              queued.hasInteraction)
                       ELSE triggerAction(t.invoked)
                ELSE [navs |-> <<>>, updates |-> 0]
     IN  /\ throttled' = t.th
         /\ view' = viewAfterAll(a.navs, NoCamera)
         /\ out' = Out("timerExpired", NoEvent, FALSE, a.navs, 0, a.updates,
                       t.invoked)
  /\ UNCHANGED << now, config, hasInteraction, conditionState,
                  triggeredCameras, triggeredCameraTimers, timeouts >>

\* Mutant of ThrottleTimerExpired: the deferred action runs only for a
\* camera that is still triggered.
ThrottleTimerExpired_ChecksTriggered ==
  /\ throttled.timerId # Undefined
  /\ throttled.timerId <= now
  /\ LET t == timerExpired(throttled, now)
         a == IF t.invoked # NoEvent /\ MapHas(triggeredCameras, t.invoked.cameraID)
                THEN triggerAction(t.invoked)
                ELSE [navs |-> <<>>, updates |-> 0]
     IN  /\ throttled' = t.th
         /\ view' = viewAfterAll(a.navs, NoCamera)
         /\ out' = Out("timerExpired", NoEvent, FALSE, a.navs, 0, a.updates,
                       t.invoked)
  /\ UNCHANGED << now, config, hasInteraction, conditionState,
                  triggeredCameras, triggeredCameraTimers, timeouts >>

\* The throttle's timeout fires.
ThrottleTimerExpired ==
  /\ throttled.timerId # Undefined
  /\ throttled.timerId <= now
  /\ LET t == timerExpired(throttled, now)
         a == IF t.invoked # NoEvent
                THEN triggerAction(t.invoked)
                ELSE [navs |-> <<>>, updates |-> 0]
     IN  /\ throttled' = t.th
         /\ view' = viewAfterAll(a.navs, NoCamera)
         /\ out' = Out("timerExpired", NoEvent, FALSE, a.navs, 0, a.updates,
                       t.invoked)
  /\ UNCHANGED << now, config, hasInteraction, conditionState,
                  triggeredCameras, triggeredCameraTimers, timeouts >>

\* Mutant of untriggerAction: the camera is untriggered only when the
\* navigation is done.
untriggerAction_GatedBookkeeping(cameraID, pending) ==
  LET action == IF config.present THEN config.untrigger ELSE "undefined"
      go == action = "default" /\ hasAllowableInteractionStateForAction
      m == IF go THEN MapDelete(triggeredCameras, cameraID) ELSE triggeredCameras
      d == deleteTimer(triggeredCameraTimers, pending, cameraID)
      p == setConditionStateIfNecessary(m, conditionState)
  IN  [ navs |-> IF go THEN <<SetViewDefault(NoCamera)>> ELSE <<>>,
        triggeredCameras |-> m, timers |-> d.timers,
        pending |-> d.pending, state |-> p.state, writes |-> p.writes,
        updates |-> 1 ]

\* Mutant of untriggerAction: the configured untrigger action is not read.
untriggerAction_AlwaysDefault(cameraID, pending) ==
  LET navs == IF hasAllowableInteractionStateForAction
                THEN <<SetViewDefault(NoCamera)>>
                ELSE <<>>
      m == MapDelete(triggeredCameras, cameraID)
      d == deleteTimer(triggeredCameraTimers, pending, cameraID)
      p == setConditionStateIfNecessary(m, conditionState)
  IN  [ navs |-> navs, triggeredCameras |-> m, timers |-> d.timers,
        pending |-> d.pending, state |-> p.state, writes |-> p.writes,
        updates |-> 1 ]

\* Mutant of untriggerAction: the default view is commanded only when the
\* camera was triggered and no other camera stays triggered.
untriggerAction_OnlyWhenLast(cameraID, pending) ==
  LET action == IF config.present THEN config.untrigger ELSE "undefined"
      m == MapDelete(triggeredCameras, cameraID)
      navs == IF /\ action = "default"
                 /\ hasAllowableInteractionStateForAction
                 /\ MapHas(triggeredCameras, cameraID)
                 /\ m = <<>>
                THEN <<SetViewDefault(NoCamera)>>
                ELSE <<>>
      d == deleteTimer(triggeredCameraTimers, pending, cameraID)
      p == setConditionStateIfNecessary(m, conditionState)
  IN  [ navs |-> navs, triggeredCameras |-> m, timers |-> d.timers,
        pending |-> d.pending, state |-> p.state, writes |-> p.writes,
        updates |-> 1 ]

\* _untriggerAction(cameraID): the commands and the state afterwards.
untriggerAction(cameraID, pending) ==
  LET action == IF config.present THEN config.untrigger ELSE "undefined"
      navs == IF action = "default" /\ hasAllowableInteractionStateForAction
                THEN <<SetViewDefault(NoCamera)>>
                ELSE <<>>
      m == MapDelete(triggeredCameras, cameraID)
      d == deleteTimer(triggeredCameraTimers, pending, cameraID)
      p == setConditionStateIfNecessary(m, conditionState)
  IN  [ navs |-> navs, triggeredCameras |-> m, timers |-> d.timers,
        pending |-> d.pending, state |-> p.state, writes |-> p.writes,
        updates |-> 1 ]

\* The timeout of a camera's untrigger timer fires and runs
\* _untriggerAction(cameraID).
UntriggerTimerFired(timer) ==
  /\ timer \in timeouts
  /\ timer.due <= now
  /\ \E chosen \in Cameras :
       LET u == untriggerAction(timer.cameraID, timeouts \ {timer})
       IN  /\ Len(u.navs) = 0 => chosen = timer.cameraID
           /\ triggeredCameras' = u.triggeredCameras
           /\ triggeredCameraTimers' = u.timers
           /\ timeouts' = u.pending
           /\ conditionState' = u.state
           /\ view' = viewAfterAll(u.navs, chosen)
           /\ out' = Out("untriggerAction",
                         [present |-> TRUE, cameraID |-> timer.cameraID],
                         FALSE, u.navs, u.writes, u.updates, NoEvent)
  /\ UNCHANGED << now, config, hasInteraction, throttled >>

\* Time passes: by `step`, or up to the next instant a pending timeout is
\* due when that comes first; never beyond `horizon`.
Tick(step, horizon) ==
  LET dues == {t.due : t \in timeouts}
                \cup (IF throttled.timerId = Undefined THEN {} ELSE {throttled.timerId})
      next == now + step
  IN  /\ next <= horizon
      /\ \A d \in dues : d > now
      /\ now' = IF \E d \in dues : d < next
                  THEN CHOOSE d \in dues : \A e \in dues : d <= e
                  ELSE next
      /\ out' = Quiet("tick")
      /\ UNCHANGED << config, hasInteraction, view, conditionState,
                      triggeredCameras, triggeredCameraTimers, timeouts,
                      throttled >>

\* The card's configuration is set or replaced.
SetConfig(c) ==
  /\ c # config
  /\ config' = c
  /\ out' = Quiet("setConfig")
  /\ UNCHANGED << now, hasInteraction, view, conditionState, triggeredCameras,
                  triggeredCameraTimers, timeouts, throttled >>

\* The user starts or stops interacting with the card.
SetInteraction ==
  /\ hasInteraction' = ~hasInteraction
  /\ out' = Quiet("setInteraction")
  /\ UNCHANGED << now, config, view, conditionState, triggeredCameras,
                  triggeredCameraTimers, timeouts, throttled >>

\* The view manager shows another view, or none.
SetView(v) ==
  /\ v # view
  /\ view' = v
  /\ out' = Quiet("setView")
  /\ UNCHANGED << now, config, hasInteraction, conditionState, triggeredCameras,
                  triggeredCameraTimers, timeouts, throttled >>

\* The answers of the three queries.
QueryResults(ids) ==
  [ present |-> TRUE, ids |-> ids, isTriggered |-> isTriggered,
    mostRecent |-> getMostRecentlyTriggeredCameraID ]

\* Mutant of Query: getTriggeredCameraIDs() hands out the engine's own
\* collection of keys instead of a new Set.
Query_SharedSet ==
  /\ returned' = [present |-> TRUE, object |-> "internal",
                  ids |-> getTriggeredCameraIDs]
  /\ out' = Out("query", QueryResults(getTriggeredCameraIDs), FALSE, <<>>, 0, 0,
                NoEvent)
  /\ UNCHANGED << now, config, hasInteraction, view, conditionState,
                  triggeredCameras, triggeredCameraTimers, timeouts, throttled >>

\* A caller runs getTriggeredCameraIDs(), isTriggered() and
\* getMostRecentlyTriggeredCameraID() and keeps the Set it got: a new Set
\* object holding the keys of the Map.
Query ==
  /\ returned' = [present |-> TRUE, object |-> "new",
                  ids |-> getTriggeredCameraIDs]
  /\ out' = Out("query", QueryResults(getTriggeredCameraIDs), FALSE, <<>>, 0, 0,
                NoEvent)
  /\ UNCHANGED << now, config, hasInteraction, view, conditionState,
                  triggeredCameras, triggeredCameraTimers, timeouts, throttled >>

\* The caller adds cameraID to, or deletes it from, the Set it holds.  A Set
\* that is the engine's own collection changes the engine's keys with it.
MutateReturned(cameraID) ==
  /\ returned.present
  /\ LET ids == IF cameraID \in returned.ids
                  THEN returned.ids \ {cameraID}
                  ELSE returned.ids \cup {cameraID}
     IN  /\ returned' = [returned EXCEPT !.ids = ids]
         /\ triggeredCameras' =
              IF returned.object = "internal"
                THEN IF cameraID \in ids
                       THEN MapSet(triggeredCameras, cameraID, now)
                       ELSE MapDelete(triggeredCameras, cameraID)
                ELSE triggeredCameras
  /\ out' = Quiet("mutateReturned")
  /\ UNCHANGED << now, config, hasInteraction, view, conditionState,
                  triggeredCameraTimers, timeouts, throttled >>

\* ------------------------------------------------------------------------
\* A Frigate camera (camera-manager/frigate/camera), as its tests
\* (tests/camera-manager/frigate/camera.test.ts) describe it: it turns the
\* Frigate event changes it is subscribed to into CameraEvents for its
\* eventCallback, which the card connects to handleCameraEvent.
\* ------------------------------------------------------------------------

\* CameraTriggerEventType: the values of triggers.events.
TriggerEventTypes == {"events", "snapshots", "clips"}

FrigateCameraNames == {"camera.front_door", "camera.back_door"}

\* A Frigate event change of type 'new': the camera name and has_snapshot,
\* has_clip of its 'after' part; its 'before' part has neither, and the
\* camera configures no zones and no labels.
FrigateEvents ==
  [camera : FrigateCameraNames, has_snapshot : BOOLEAN, has_clip : BOOLEAN]

\* new FrigateCamera({id: 'CAMERA_1', frigate: {camera_name:
\* 'camera.front_door'}, triggers: {events}}, engine, {eventCallback}), with
\* the last event change it received and the CameraEvent it called the
\* callback with.
FrigateCamera(events) ==
  [ present |-> TRUE, cameraID |-> "A", camera_name |-> "camera.front_door",
    events |-> events, last |-> NoEvent, called |-> NoEvent ]

\* The rows of 'should handle event type correctly': triggers.events,
\* has_snapshot, has_clip and whether the callback is expected to be called.
EventTypeCases ==
  { <<{"events", "snapshots", "clips"}, FALSE, FALSE, TRUE>>,
    <<{"events", "snapshots", "clips"}, FALSE, TRUE, TRUE>>,
    <<{"events", "snapshots", "clips"}, TRUE, FALSE, TRUE>>,
    <<{"events", "snapshots", "clips"}, TRUE, TRUE, TRUE>>,
    <<{"events", "snapshots"}, FALSE, FALSE, TRUE>>,
    <<{"events", "snapshots"}, FALSE, TRUE, TRUE>>,
    <<{"events", "snapshots"}, TRUE, FALSE, TRUE>>,
    <<{"events", "snapshots"}, TRUE, TRUE, TRUE>>,
    <<{"events", "clips"}, FALSE, FALSE, TRUE>>,
    <<{"events", "clips"}, FALSE, TRUE, TRUE>>,
    <<{"events", "clips"}, TRUE, FALSE, TRUE>>,
    <<{"events", "clips"}, TRUE, TRUE, TRUE>>,
    <<{"events"}, FALSE, FALSE, TRUE>>,
    <<{"events"}, FALSE, TRUE, TRUE>>,
    <<{"events"}, TRUE, FALSE, TRUE>>,
    <<{"events"}, TRUE, TRUE, TRUE>>,
    <<{"snapshots", "clips"}, FALSE, FALSE, FALSE>>,
    <<{"snapshots", "clips"}, FALSE, TRUE, TRUE>>,
    <<{"snapshots", "clips"}, TRUE, FALSE, TRUE>>,
    <<{"snapshots", "clips"}, TRUE, TRUE, TRUE>>,
    <<{"snapshots"}, FALSE, FALSE, FALSE>>,
    <<{"snapshots"}, FALSE, TRUE, FALSE>>,
    <<{"snapshots"}, TRUE, FALSE, TRUE>>,
    <<{"snapshots"}, TRUE, TRUE, TRUE>>,
    <<{"clips"}, FALSE, FALSE, FALSE>>,
    <<{"clips"}, FALSE, TRUE, TRUE>>,
    <<{"clips"}, TRUE, FALSE, FALSE>>,
    <<{"clips"}, TRUE, TRUE, TRUE>> }

\* Mutant of frigateEventHandler: the delivered event reports the media the
\* Frigate event has, configured or not.
frigateEventHandler_MediaUnfiltered(cam, fe) ==
  IF fe.camera # cam.camera_name
    THEN NoEvent
  ELSE IF \/ "events" \in cam.events
          \/ "snapshots" \in cam.events /\ fe.has_snapshot
          \/ "clips" \in cam.events /\ fe.has_clip
    THEN [ cameraID |-> cam.cameraID, type |-> "new", fidelity |-> "high",
           snapshot |-> fe.has_snapshot, clip |-> fe.has_clip ]
  ELSE NoEvent

\* The camera's handler of a Frigate event change: the CameraEvent for the
\* callback, if the callback is to be called.
frigateEventHandler(cam, fe) ==
  IF fe.camera # cam.camera_name
    THEN NoEvent
  ELSE IF \/ "events" \in cam.events
          \/ "snapshots" \in cam.events /\ fe.has_snapshot
          \/ "clips" \in cam.events /\ fe.has_clip
    THEN [ cameraID |-> cam.cameraID, type |-> "new", fidelity |-> "high",
           snapshot |-> fe.has_snapshot /\ "snapshots" \in cam.events,
           clip |-> fe.has_clip /\ "clips" \in cam.events ]
  ELSE NoEvent

\* Home Assistant delivers a Frigate event change to the camera; the
\* callback, when called, is handleCameraEvent.
FrigateEventChange(fe) ==
  /\ frigate.present
  /\ LET ev == frigateEventHandler(frigate, fe)
     IN  /\ frigate' = [frigate EXCEPT !.last = fe, !.called = ev]
         /\ IF ev = NoEvent
              THEN /\ out' = Quiet("frigateEventChange")
                   /\ UNCHANGED << now, config, hasInteraction, view,
                                   conditionState, triggeredCameras,
                                   triggeredCameraTimers, timeouts, throttled >>
              ELSE handleCameraEvent(ev)

\* ------------------------------------------------------------------------
\* CameraManagerEngineFactory (camera-manager/engine-factory.ts)
\* ------------------------------------------------------------------------

\* Engine.Frigate, the one engine type getEngine constructs.
Engine_Frigate == "frigate"

\* A value of Engine that the switch of getEngine has no case for.
Engine_Unhandled == "unhandled"

EngineTypes == {Engine_Frigate, Engine_Unhandled}

\* null where an Engine is expected.
NoEngineType == "null"

\* A CameraManagerEngine object: the n-th object the factory constructed,
\* and the engine type it was constructed for.
EngineInstance(engine, n) == [engine |-> engine, instance |-> n]

\* null where a CameraManagerEngine is expected.
NoEngine == [engine |-> NoEngineType, instance |-> 0]

\* cameraConfig.frigate.camera_name: absent, empty or a name.
NoCameraName == "undefined"

CameraNameValues == FrigateCameraNames \cup {"", NoCameraName}

hasCameraName(cameraConfig) ==
  cameraConfig.camera_name \notin {"", NoCameraName}

CameraConfigs == [present : {TRUE}, camera_name : CameraNameValues]

\* undefined where a CameraConfig is expected.
NoCameraConfig == [present |-> FALSE]

\* Map<string, CameraConfig>: entries in insertion order, distinct keys.
CameraMaps ==
  {<<>>}
  \cup {<<[id |-> c, config |-> cc]>> : c \in Cameras, cc \in CameraConfigs}
  \cup {<<[id |-> c, config |-> cc], [id |-> d, config |-> dd]>> :
          <<c, d>> \in {p \in Cameras \X Cameras : p[1] # p[2]},
          <<cc, dd>> \in CameraConfigs \X CameraConfigs}

\* cameras.get(cameraID)
camerasGet(cameras, cameraID) ==
  IF \E i \in 1..Len(cameras) : cameras[i].id = cameraID
    THEN cameras[CHOOSE i \in 1..Len(cameras) : cameras[i].id = cameraID].config
    ELSE NoCameraConfig

\* [...cameras.keys()]
camerasKeys(cameras) == [i \in 1..Len(cameras) |-> cameras[i].id]

\* Set<string>: camera IDs in insertion order.
CameraIDSets ==
  {<<>>} \cup {<<c>> : c \in Cameras}
  \cup {p \in Cameras \X Cameras : p[1] # p[2]}

\* The factory as constructed: no engine in _engines, none constructed.
NoEngines == [e \in EngineTypes |-> NoEngine]

\* What a call returned: an engine or null; a Map of engines to sets of
\* camera IDs, in insertion order, or null; an array of engines or null.
EngineReturned(e) ==
  [kind |-> "engine", engine |-> e, entries |-> <<>>, array |-> <<>>]

MapReturned(output) ==
  [kind |-> IF output = <<>> THEN "null" ELSE "map",
   engine |-> NoEngine, entries |-> output, array |-> <<>>]

ArrayReturned(engines) ==
  [kind |-> IF engines.kind = "map" THEN "array" ELSE "null",
   engine |-> NoEngine, entries |-> <<>>,
   array |-> [i \in 1..Len(engines.entries) |-> engines.entries[i].engine]]

NothingReturned ==
  [kind |-> "none", engine |-> NoEngine, entries |-> <<>>, array |-> <<>>]

\* The state of the factory after a call: _engines, the objects constructed
\* so far, and the value returned.
FactoryState(engines, constructed, value) ==
  [engines |-> engines, constructed |-> constructed, returned |-> value]

\* Mutant of getEngine: _engines is not consulted.
getEngine_NoCache(f, engine) ==
  IF engine = Engine_Frigate
    THEN LET cameraManagerEngine ==
               EngineInstance(engine, Len(f.constructed) + 1)
         IN  FactoryState([f.engines EXCEPT ![engine] = cameraManagerEngine],
                          Append(f.constructed, cameraManagerEngine),
                          EngineReturned(cameraManagerEngine))
    ELSE FactoryState(f.engines, f.constructed, EngineReturned(NoEngine))

\* getEngine(engine)
getEngine(f, engine) ==
  LET cachedEngine == f.engines[engine]
  IN  IF cachedEngine # NoEngine
        THEN FactoryState(f.engines, f.constructed,
                          EngineReturned(cachedEngine))
      ELSE IF engine = Engine_Frigate
        THEN LET cameraManagerEngine ==
                   EngineInstance(engine, Len(f.constructed) + 1)
             IN  FactoryState([f.engines EXCEPT ![engine] = cameraManagerEngine],
                              Append(f.constructed, cameraManagerEngine),
                              EngineReturned(cameraManagerEngine))
      ELSE FactoryState(f.engines, f.constructed, EngineReturned(NoEngine))

\* getEngineForCamera(cameraConfig)
getEngineForCamera(f, cameraConfig) ==
  IF cameraConfig = NoCameraConfig
    THEN FactoryState(f.engines, f.constructed, EngineReturned(NoEngine))
    ELSE LET engine == IF hasCameraName(cameraConfig)
                         THEN Engine_Frigate
                         ELSE NoEngineType
         IN  IF engine # NoEngineType
               THEN getEngine(f, engine)
               ELSE FactoryState(f.engines, f.constructed,
                                 EngineReturned(NoEngine))

\* output.get(engine)?.add(cameraID), after output.set(engine, new Set())
\* if output has no such key.
outputAdd(output, engine, cameraID) ==
  IF \E i \in 1..Len(output) : output[i].engine = engine
    THEN [i \in 1..Len(output) |->
            IF output[i].engine = engine
              THEN [output[i] EXCEPT !.cameraIDs = @ \cup {cameraID}]
              ELSE output[i]]
    ELSE Append(output, [engine |-> engine, cameraIDs |-> {cameraID}])

\* The loop of getEnginesForCameraIDs over the camera IDs from the i-th on.
RECURSIVE forCameraIDs(_, _, _, _, _)
forCameraIDs(f, cameras, cameraIDs, i, output) ==
  IF i > Len(cameraIDs)
    THEN FactoryState(f.engines, f.constructed, MapReturned(output))
    ELSE LET cameraConfig == camerasGet(cameras, cameraIDs[i])
         IN  IF cameraConfig = NoCameraConfig
               THEN forCameraIDs(f, cameras, cameraIDs, i + 1, output)
               ELSE LET g == getEngineForCamera(f, cameraConfig)
                        engine == g.returned.engine
                    IN  IF engine = NoEngine
                          THEN forCameraIDs(g, cameras, cameraIDs, i + 1, output)
                          ELSE forCameraIDs(g, cameras, cameraIDs, i + 1,
                                 outputAdd(output, engine, cameraIDs[i]))

\* getEnginesForCameraIDs(cameras, cameraIDs)
getEnginesForCameraIDs(f, cameras, cameraIDs) ==
  forCameraIDs(f, cameras, cameraIDs, 1, <<>>)

\* getEngineForMedia(cameras, media), media.getCameraID() being cameraID.
getEngineForMedia(f, cameras, cameraID) ==
  IF cameraID = NoCamera
    THEN FactoryState(f.engines, f.constructed, EngineReturned(NoEngine))
    ELSE LET g == getEnginesForCameraIDs(f, cameras, <<cameraID>>)
             engines == g.returned
         IN  FactoryState(g.engines, g.constructed,
               EngineReturned(IF engines.kind = "map"
                                THEN engines.entries[1].engine
                                ELSE NoEngine))

\* getAllEngines(cameras)
getAllEngines(f, cameras) ==
  LET g == getEnginesForCameraIDs(f, cameras, camerasKeys(cameras))
  IN  FactoryState(g.engines, g.constructed, ArrayReturned(g.returned))

\* No argument of the kind.
NoArguments ==
  [engine |-> NoEngineType, cameraConfig |-> NoCameraConfig,
   cameras |-> <<>>, cameraIDs |-> <<>>, media |-> NoCamera]

\* new CameraManagerEngineFactory(cardWideConfig), before any call.
ConstructedFactory ==
  [engines |-> NoEngines, constructed |-> <<>>, op |-> "init",
   before |-> NoEngines, args |-> NoArguments, returned |-> NothingReturned]

\* A caller calls op with args, which leaves the factory as g.
FactoryCall(op, args, g) ==
  /\ Len(factory.constructed) < MaxConstructed
  /\ factory' = [engines |-> g.engines, constructed |-> g.constructed,
                 op |-> op, before |-> factory.engines, args |-> args,
                 returned |-> g.returned]

GetEngine(engine) ==
  FactoryCall("getEngine", [NoArguments EXCEPT !.engine = engine],
              getEngine(factory, engine))

GetEngineForCamera(cameraConfig) ==
  FactoryCall("getEngineForCamera",
              [NoArguments EXCEPT !.cameraConfig = cameraConfig],
              getEngineForCamera(factory, cameraConfig))

GetEnginesForCameraIDs(cameras, cameraIDs) ==
  FactoryCall("getEnginesForCameraIDs",
              [NoArguments EXCEPT !.cameras = cameras, !.cameraIDs = cameraIDs],
              getEnginesForCameraIDs(factory, cameras, cameraIDs))

GetEngineForMedia(cameras, cameraID) ==
  FactoryCall("getEngineForMedia",
              [NoArguments EXCEPT !.cameras = cameras, !.media = cameraID],
              getEngineForMedia(factory, cameras, cameraID))

GetAllEngines(cameras) ==
  FactoryCall("getAllEngines", [NoArguments EXCEPT !.cameras = cameras],
              getAllEngines(factory, cameras))

\* ------------------------------------------------------------------------
\* MenuButtonController (components-lib/menu-controller.ts)
\* ------------------------------------------------------------------------

\* A key the object does not have.
Absent == "absent"

\* The StyleInfo of _getEmphasizedStyle() and the empty StyleInfo.
EmphasizedStyle == "emphasized"

EmptyStyle == "{}"

\* The view names that FRIGATE_CARD_VIEWS_USER_SPECIFIED lists.
FRIGATE_CARD_VIEWS_USER_SPECIFIED ==
  {"live", "clip", "clips", "snapshot", "snapshots", "recording",
   "recordings", "image", "timeline"}

\* The MenuItem objects callers hold: ref is the object, the rest is what
\* it contains (its tap_action is a frigate card action of that name, it
\* has no other action).  Two of them contain the same.
MenuItems ==
  { [ref |-> "b1", title |-> "one", tap_action |-> "clips", style |-> Absent],
    [ref |-> "b2", title |-> "two", tap_action |-> "fullscreen",
     style |-> EmptyStyle],
    [ref |-> "b3", title |-> "one", tap_action |-> "clips", style |-> Absent] }

\* What calculateButtons reads of its arguments: view.view and
\* config.view.default, whether the store has visible cameras, whether the
\* selected cameras support clips, options.inFullscreenMode, and whether
\* the card is being casted.  The selected camera has no substream and
\* supports no snapshots, recordings or timeline, no media is selected or
\* loaded, there is no microphone and no media player, and the options ask
\* for no camera UI button and no expanded mode.
MenuEnvironments ==
  [ viewName : DefaultViews, defaultView : DefaultViews,
    visibleCameras : BOOLEAN, supportsClips : BOOLEAN,
    inFullscreenMode : BOOLEAN, isBeingCasted : BOOLEAN ]

NoEnvironment == [present |-> FALSE]

\* A button of the returned array: a new object.
Button(title, tap_action, style) ==
  [title |-> title, tap_action |-> tap_action, style |-> style]

\* The buttons calculateButtons pushes before it reads the dynamic buttons.
builtInButtons(env) ==
  <<Button("frigate", "default", Absent)>>
  \o (IF env.visibleCameras
        THEN <<Button("cameras", Absent, Absent)>> ELSE <<>>)
  \o <<Button("live", "live",
         IF env.viewName = "live" THEN EmphasizedStyle ELSE EmptyStyle)>>
  \o (IF env.supportsClips
        THEN <<Button("clips", "clips",
                 IF env.viewName = "clips" THEN EmphasizedStyle
                                           ELSE EmptyStyle)>>
        ELSE <<>>)
  \o <<Button("image", "image",
         IF env.viewName = "image" THEN EmphasizedStyle ELSE EmptyStyle)>>
  \o (IF ~env.isBeingCasted
        THEN <<Button("fullscreen", "fullscreen",
                 IF env.inFullscreenMode THEN EmphasizedStyle
                                         ELSE EmptyStyle)>>
        ELSE <<>>)
  \o <<Button("expand", "expand", EmptyStyle)>>

\* _getStyleFromActions(config, view, button, options)
getStyleFromActions(env, button) ==
  IF button.tap_action = Absent
    THEN EmptyStyle
  ELSE IF \/ /\ button.tap_action \in FRIGATE_CARD_VIEWS_USER_SPECIFIED
             /\ env.viewName = button.tap_action
          \/ /\ button.tap_action = "default"
             /\ env.viewName = env.defaultView
          \/ /\ button.tap_action = "fullscreen"
             /\ env.inFullscreenMode
    THEN EmphasizedStyle
  ELSE EmptyStyle

\* {style: this._getStyleFromActions(...), ...button}
styledDynamicButton(env, button) ==
  Button(button.title, button.tap_action,
         IF button.style # Absent THEN button.style
                                  ELSE getStyleFromActions(env, button))

\* _dynamicMenuButtons.includes(button)
includes(dynamicMenuButtons, button) ==
  \E i \in 1..Len(dynamicMenuButtons) : dynamicMenuButtons[i] = button

\* Mutant of addDynamicMenuButton: the button is pushed in any case.
addDynamicMenuButton_AlwaysPush(dynamicMenuButtons, button) ==
  Append(dynamicMenuButtons, button)

\* addDynamicMenuButton(button): the new _dynamicMenuButtons.
addDynamicMenuButton(dynamicMenuButtons, button) ==
  IF ~includes(dynamicMenuButtons, button)
    THEN Append(dynamicMenuButtons, button)
    ELSE dynamicMenuButtons

\* removeDynamicMenuButton(button): the new _dynamicMenuButtons.
removeDynamicMenuButton(dynamicMenuButtons, button) ==
  LET differs(existingButton) == existingButton # button
  IN  SelectSeq(dynamicMenuButtons, differs)

\* calculateButtons(hass, config, cameraManager, view, options): the array
\* returned.
calculateButtons(dynamicMenuButtons, env) ==
  LET buttons == builtInButtons(env)
      styledDynamicButtons ==
        [i \in 1..Len(dynamicMenuButtons) |->
           styledDynamicButton(env, dynamicMenuButtons[i])]
  IN  buttons \o styledDynamicButtons

NoButton == [ref |-> "none"]

\* new MenuButtonController(), before any call.
ConstructedMenu ==
  [dynamicMenuButtons |-> <<>>, op |-> "init", button |-> NoButton,
   env |-> NoEnvironment, before |-> <<>>, returned |-> <<>>]

AddDynamicMenuButton(button) ==
  /\ Len(menu.dynamicMenuButtons) < MaxButtons
  /\ menu' = [dynamicMenuButtons |->
                addDynamicMenuButton(menu.dynamicMenuButtons, button),
              op |-> "addDynamicMenuButton", button |-> button,
              env |-> NoEnvironment, before |-> menu.dynamicMenuButtons,
              returned |-> <<>>]

RemoveDynamicMenuButton(button) ==
  menu' = [dynamicMenuButtons |->
             removeDynamicMenuButton(menu.dynamicMenuButtons, button),
           op |-> "removeDynamicMenuButton", button |-> button,
           env |-> NoEnvironment, before |-> menu.dynamicMenuButtons,
           returned |-> <<>>]

CalculateButtons(env) ==
  menu' = [dynamicMenuButtons |-> menu.dynamicMenuButtons,
           op |-> "calculateButtons", button |-> NoButton, env |-> env,
           before |-> menu.dynamicMenuButtons,
           returned |-> calculateButtons(menu.dynamicMenuButtons, env)]

\* ------------------------------------------------------------------------
\* History variables.  They observe a step and never influence it.
\* ------------------------------------------------------------------------

AcceptedEvent(o) == o.op = "handleCameraEvent" /\ o.accepted

\* endAt[c]: the last accepted end event for c that found c triggered (when
\* it arrived, the untrigger_seconds then configured), and whether a start
\* event for c was accepted before those seconds had elapsed.
ObserveEnd ==
  endAt' =
    [ c \in Cameras |->
        IF AcceptedEvent(out') /\ out'.ev.cameraID = c
          THEN IF out'.ev.type = "end"
                 THEN IF MapHas(triggeredCameras, c)
                        THEN [ present |-> TRUE, at |-> now,
                               seconds |-> config.untrigger_seconds,
                               retriggered |-> FALSE ]
                        ELSE NoEnd
               ELSE IF /\ endAt[c].present
                       /\ now < endAt[c].at + endAt[c].seconds * MsPerSecond
                 THEN [endAt[c] EXCEPT !.retriggered = TRUE]
               ELSE NoEnd
          ELSE endAt[c] ]

\* burst: the accepted start events since the last one that arrived with no
\* accepted start event in the second before it, each with the number of
\* times _triggerAction has run for it (an execution counts for the latest
\* entry of the executed event's camera); from the third on they share the
\* last entry.
ObserveBurst ==
  LET n == Len(burst)
      ran(cameraID) ==
        IF out'.executed # NoEvent /\ out'.executed.cameraID = cameraID
          THEN 1 ELSE 0
      latest(cameraID) ==
        {i \in 1..n : /\ burst[i].cameraID = cameraID
                      /\ \A j \in (i + 1)..n : burst[j].cameraID # cameraID}
  IN  burst' =
        IF AcceptedEvent(out') /\ out'.ev.type # "end"
          THEN LET call == [ cameraID |-> out'.ev.cameraID, at |-> now,
                             execs |-> ran(out'.ev.cameraID) ]
               IN  IF n = 0 \/ now - burst[n].at >= ThrottleWait
                     THEN <<call>>
                   ELSE IF n < 3
                     THEN Append(burst, call)
                   ELSE [burst EXCEPT ![3] = call]
        ELSE [ i \in 1..n |->
                 IF i \in latest(burst[i].cameraID)
                   THEN [burst[i] EXCEPT !.execs = @ + ran(burst[i].cameraID)]
                   ELSE burst[i] ]

\* execGap: the instant of the last execution of _triggerAction and the time
\* between it and the execution before it.
ObserveExec ==
  execGap' =
    IF out'.executed # NoEvent
      THEN [ last |-> now,
             gap |-> IF execGap.last = Undefined THEN Undefined
                     ELSE now - execGap.last ]
      ELSE execGap

\* lastEnd[c]: the accepted end event that armed c's pending timer (when it
\* arrived, the untrigger_seconds then configured, whether it found c out of
\* the triggered set, whether it found a timer of c pending for another
\* instant, whether an end event for c has been discarded since while c was
\* triggered); nothing once c's timer has fired.
ObserveLastEnd ==
  lastEnd' =
    [ c \in Cameras |->
        IF AcceptedEvent(out') /\ out'.ev.type = "end" /\ out'.ev.cameraID = c
          THEN [ present |-> TRUE, at |-> now,
                 seconds |-> config.untrigger_seconds,
                 untriggered |-> ~MapHas(triggeredCameras, c),
                 superseding |->
                   \E t \in timeouts :
                     /\ t.cameraID = c
                     /\ t.due # now + config.untrigger_seconds * MsPerSecond,
                 stale |-> FALSE ]
        ELSE IF out'.op = "untriggerAction" /\ out'.ev.cameraID = c
          THEN NoEnd
        ELSE IF /\ out'.op = "handleCameraEvent"
                /\ ~out'.accepted
                /\ out'.ev.type = "end"
                /\ out'.ev.cameraID = c
                /\ MapHas(triggeredCameras, c)
                /\ lastEnd[c].present
          THEN [lastEnd[c] EXCEPT !.stale = TRUE]
        ELSE lastEnd[c] ]

\* queued: the configuration and the interaction state at the last call of
\* the throttled action that left its event in lastArgs, the condition state
\* published when that call was made and the event it found in lastArgs;
\* nothing after a call that executed its event at once.
ObserveQueued ==
  queued' =
    IF AcceptedEvent(out') /\ out'.ev.type # "end"
      THEN IF out'.executed = NoEvent
             THEN [ present |-> TRUE, config |-> config,
                    hasInteraction |-> hasInteraction,
                    published |-> conditionState',
                    replaced |-> throttled.lastArgs ]
             ELSE NoQueued
      ELSE queued

\* ------------------------------------------------------------------------
\* Specifications.  Each one runs the engine in a bounded environment.
\* ------------------------------------------------------------------------

BaseConfig ==
  [ present |-> TRUE, filter_selected_camera |-> FALSE, untrigger_seconds |-> 1,
    trigger |-> "live", untrigger |-> "default", interaction_mode |-> "all",
    default |-> "live" ]

ViewOf(cameraID) == [present |-> TRUE, camera |-> cameraID]

\* Spec: the untrigger timers.  Start and end events for every camera, every
\* untrigger_seconds, the clock in half windows.
TimerConfigs == {[BaseConfig EXCEPT !.untrigger_seconds = n] : n \in UntriggerSeconds}

TimerEvents ==
  {e \in CameraEvents : e.fidelity = "high" /\ ~e.snapshot /\ ~e.clip}

Init ==
  /\ Constructed
  /\ config \in TimerConfigs
  /\ hasInteraction = FALSE
  /\ view = ViewOf("A")
  /\ frigate = NoFrigate
  /\ factory = ConstructedFactory
  /\ menu = ConstructedMenu

Observe ==
  /\ ObserveEnd
  /\ ObserveLastEnd
  /\ UNCHANGED << burst, execGap, queued, returned, frigate,
                  factory, menu >>

Next ==
  \/ \E ev \in TimerEvents : handleCameraEvent(ev) /\ Observe
  \/ ThrottleTimerExpired /\ Observe
  \/ \E timer \in timeouts : UntriggerTimerFired(timer) /\ Observe
  \/ Tick(Quantum, MaxTime) /\ Observe

Spec == Init /\ [][Next]_vars

\* SpecThrottle: the throttled trigger action.  Start events for every
\* camera, the clock in half windows.
ThrottleEvents ==
  {e \in StartEvents : e.fidelity = "high" /\ ~e.snapshot /\ e.clip}

InitThrottle ==
  /\ Constructed
  /\ config = BaseConfig
  /\ hasInteraction = FALSE
  /\ view = ViewOf("A")
  /\ frigate = NoFrigate
  /\ factory = ConstructedFactory
  /\ menu = ConstructedMenu

ObserveThrottle ==
  /\ ObserveBurst
  /\ ObserveExec
  /\ UNCHANGED << endAt, lastEnd, queued, returned, frigate,
                  factory, menu >>

NextThrottle ==
  \/ \E ev \in ThrottleEvents : handleCameraEvent(ev) /\ ObserveThrottle
  \/ ThrottleTimerExpired /\ ObserveThrottle
  \/ Tick(Quantum, MaxTime) /\ ObserveThrottle

SpecThrottle == InitThrottle /\ [][NextThrottle]_vars

\* SpecPolicy: the decisions.  Every trigger action, untrigger action,
\* interaction mode, default view, interaction state and shape of event, for
\* one camera; the configuration may disappear; untrigger timers of 0
\* seconds; the clock in whole windows, one window long.
PolicyConfigs ==
  {c \in Configs : ~c.filter_selected_camera /\ c.untrigger_seconds = 0}

PolicyEvents == {e \in CameraEvents : e.cameraID = "A"}

InitPolicy ==
  /\ Constructed
  /\ config \in PolicyConfigs
  /\ hasInteraction \in BOOLEAN
  /\ view = ViewOf("A")
  /\ frigate = NoFrigate
  /\ factory = ConstructedFactory
  /\ menu = ConstructedMenu

ObservePolicy ==
  UNCHANGED << endAt, burst, execGap, lastEnd, queued, returned, frigate,
                  factory, menu >>

NextPolicy ==
  \/ \E ev \in PolicyEvents : handleCameraEvent(ev) /\ ObservePolicy
  \/ ThrottleTimerExpired /\ ObservePolicy
  \/ \E timer \in timeouts : UntriggerTimerFired(timer) /\ ObservePolicy
  \/ Tick(ThrottleWait, ThrottleWait) /\ ObservePolicy
  \/ SetConfig(NoConfig) /\ ObservePolicy
  \/ SetInteraction /\ ObservePolicy

SpecPolicy == InitPolicy /\ [][NextPolicy]_vars

\* SpecFilter: the guards of handleCameraEvent.  The configuration and the
\* view may be absent and change, the filter on the selected camera is on
\* or off, start and end events for every camera; untrigger timers of 0
\* seconds; the clock in whole windows, one window long.
FilterConfigs ==
  {c \in Configs : /\ c.untrigger_seconds = 0
                   /\ c.trigger = "live"
                   /\ c.untrigger = "none"
                   /\ c.interaction_mode = "all"
                   /\ c.default = "live"}

InitFilter ==
  /\ Constructed
  /\ config \in FilterConfigs \cup {NoConfig}
  /\ hasInteraction = FALSE
  /\ view \in Views \cup {NoView}
  /\ frigate = NoFrigate
  /\ factory = ConstructedFactory
  /\ menu = ConstructedMenu

ObserveFilter ==
  /\ ObserveLastEnd
  /\ UNCHANGED << endAt, burst, execGap, queued, returned, frigate,
                  factory, menu >>

NextFilter ==
  \/ \E ev \in TimerEvents : handleCameraEvent(ev) /\ ObserveFilter
  \/ ThrottleTimerExpired /\ ObserveFilter
  \/ \E timer \in timeouts : UntriggerTimerFired(timer) /\ ObserveFilter
  \/ Tick(ThrottleWait, ThrottleWait) /\ ObserveFilter
  \/ \E c \in FilterConfigs \cup {NoConfig} : SetConfig(c) /\ ObserveFilter
  \/ \E v \in Views \cup {NoView} : SetView(v) /\ ObserveFilter

SpecFilter == InitFilter /\ [][NextFilter]_vars

\* SpecQuery: the queries.  Start and end events for every camera, a caller
\* that queries and changes the Set it was given; untrigger timers of 0
\* seconds; the clock in half windows, one window long.
InitQuery ==
  /\ Constructed
  /\ config = [BaseConfig EXCEPT !.untrigger_seconds = 0]
  /\ hasInteraction = FALSE
  /\ view = ViewOf("A")
  /\ frigate = NoFrigate
  /\ factory = ConstructedFactory
  /\ menu = ConstructedMenu

ObserveQuery ==
  UNCHANGED << endAt, burst, execGap, lastEnd, queued, frigate, factory, menu >>

NextQuery ==
  \/ \E ev \in TimerEvents :
       handleCameraEvent(ev) /\ ObserveQuery /\ UNCHANGED returned
  \/ ThrottleTimerExpired /\ ObserveQuery /\ UNCHANGED returned
  \/ \E timer \in timeouts :
       UntriggerTimerFired(timer) /\ ObserveQuery /\ UNCHANGED returned
  \/ Tick(Quantum, ThrottleWait) /\ ObserveQuery /\ UNCHANGED returned
  \/ Query /\ ObserveQuery
  \/ \E c \in Cameras : MutateReturned(c) /\ ObserveQuery

SpecQuery == InitQuery /\ [][NextQuery]_vars

\* SpecFrigate: a Frigate camera feeds the engine.  Every triggers.events,
\* every 'new' event change for the camera and for another one; trigger
\* action 'media'; the clock in whole windows, one window long.
InitFrigate ==
  /\ Constructed
  /\ config = [BaseConfig EXCEPT !.trigger = "media"]
  /\ hasInteraction = FALSE
  /\ view = ViewOf("A")
  /\ frigate \in {FrigateCamera(events) : events \in SUBSET TriggerEventTypes}
  /\ factory = ConstructedFactory
  /\ menu = ConstructedMenu

ObserveFrigate ==
  UNCHANGED << endAt, burst, execGap, lastEnd, queued, returned, factory, menu >>

NextFrigate ==
  \/ \E fe \in FrigateEvents : FrigateEventChange(fe) /\ ObserveFrigate
  \/ ThrottleTimerExpired /\ ObserveFrigate /\ UNCHANGED frigate
  \/ Tick(ThrottleWait, ThrottleWait) /\ ObserveFrigate /\ UNCHANGED frigate

SpecFrigate == InitFrigate /\ [][NextFrigate]_vars

\* SpecFireTime: the configuration and the interaction state change while an
\* event waits in the throttle.  Trigger actions 'live' and 'default', every
\* default view, interaction modes 'all' and 'active', start events with and
\* without a clip for one camera; the clock in whole windows, one window
\* long.
FireTimeConfigs ==
  {c \in Configs : /\ ~c.filter_selected_camera
                   /\ c.untrigger_seconds = 0
                   /\ c.untrigger = "none"
                   /\ c.trigger \in {"live", "default"}
                   /\ c.interaction_mode \in {"all", "active"}}

FireTimeEvents ==
  {e \in StartEvents : e.cameraID = "A" /\ e.fidelity = "high" /\ ~e.snapshot}

InitFireTime ==
  /\ Constructed
  /\ config \in FireTimeConfigs
  /\ hasInteraction \in BOOLEAN
  /\ view = ViewOf("A")
  /\ frigate = NoFrigate
  /\ factory = ConstructedFactory
  /\ menu = ConstructedMenu

ObserveFireTime ==
  /\ ObserveQueued
  /\ UNCHANGED << endAt, burst, execGap, lastEnd, returned, frigate,
                  factory, menu >>

NextFireTime ==
  \/ \E ev \in FireTimeEvents : handleCameraEvent(ev) /\ ObserveFireTime
  \/ ThrottleTimerExpired /\ ObserveFireTime
  \/ Tick(ThrottleWait, ThrottleWait) /\ ObserveFireTime
  \/ \E c \in FireTimeConfigs : SetConfig(c) /\ ObserveFireTime
  \/ SetInteraction /\ ObserveFireTime

SpecFireTime == InitFireTime /\ [][NextFireTime]_vars

\* The engine and the Frigate camera take no step.
EngineIdle ==
  UNCHANGED << now, config, hasInteraction, view, conditionState,
               triggeredCameras, triggeredCameraTimers, timeouts, throttled,
               out, endAt, burst, execGap, lastEnd, queued, returned, frigate >>

\* SpecFactory: one CameraManagerEngineFactory.  Every call with every
\* engine type, camera configuration, Map of at most two cameras, Set of
\* camera IDs and media camera.
InitFactory ==
  /\ Constructed
  /\ config = BaseConfig
  /\ hasInteraction = FALSE
  /\ view = ViewOf("A")
  /\ frigate = NoFrigate
  /\ factory = ConstructedFactory
  /\ menu = ConstructedMenu

NextFactory ==
  \/ \E engine \in EngineTypes :
       GetEngine(engine) /\ EngineIdle /\ UNCHANGED menu
  \/ \E cameraConfig \in CameraConfigs \cup {NoCameraConfig} :
       GetEngineForCamera(cameraConfig) /\ EngineIdle /\ UNCHANGED menu
  \/ \E cameras \in CameraMaps, cameraIDs \in CameraIDSets :
       GetEnginesForCameraIDs(cameras, cameraIDs) /\ EngineIdle
       /\ UNCHANGED menu
  \/ \E cameras \in CameraMaps, cameraID \in Cameras \cup {NoCamera} :
       GetEngineForMedia(cameras, cameraID) /\ EngineIdle /\ UNCHANGED menu
  \/ \E cameras \in CameraMaps :
       GetAllEngines(cameras) /\ EngineIdle /\ UNCHANGED menu

SpecFactory == InitFactory /\ [][NextFactory]_vars

\* SpecMenu: one MenuButtonController.  Three MenuItem objects are added
\* and removed in every order, and the buttons are calculated in every
\* environment.
InitMenu ==
  /\ Constructed
  /\ config = BaseConfig
  /\ hasInteraction = FALSE
  /\ view = ViewOf("A")
  /\ frigate = NoFrigate
  /\ factory = ConstructedFactory
  /\ menu = ConstructedMenu

NextMenu ==
  \/ \E button \in MenuItems :
       AddDynamicMenuButton(button) /\ EngineIdle /\ UNCHANGED factory
  \/ \E button \in MenuItems :
       RemoveDynamicMenuButton(button) /\ EngineIdle /\ UNCHANGED factory
  \/ \E env \in MenuEnvironments :
       CalculateButtons(env) /\ EngineIdle /\ UNCHANGED factory

SpecMenu == InitMenu /\ [][NextMenu]_vars

TypeOK ==
  /\ now \in 0..MaxTime
  /\ config \in Configs \cup {NoConfig}
  /\ hasInteraction \in BOOLEAN
  /\ view \in Views \cup {NoView}
  /\ conditionState \in {NoTriggered} \cup {TriggeredState(s) : s \in SUBSET Cameras}
  /\ MapKeys(triggeredCameras) \subseteq Cameras
  /\ DOMAIN triggeredCameraTimers \subseteq Cameras

\* ------------------------------------------------------------------------
\* Claims
\* ------------------------------------------------------------------------

Triggered(c) == MapHas(triggeredCameras, c)

\* C1 (as stated): once a start event for camera C is accepted less than
\* untrigger_seconds after the end event that armed C's untrigger timer, the
\* timer never fires and C stays in the triggered set (until a later end
\* event's timer expires).
C1_RetriggerKeepsTriggered ==
  \A c \in Cameras :
    (endAt[c].present /\ endAt[c].retriggered) => Triggered(c)

\* C4: after an accepted end event for a triggered camera C with
\* untrigger_seconds = N and no later event for C, C's timer is due exactly
\* N seconds after the end event, C is in the triggered set as long as the
\* timer is pending (so at every instant before the N seconds have elapsed)
\* and C is out of the set once the timer has fired.
C4_AutoUntrigger ==
  \A c \in Cameras :
    (endAt[c].present /\ ~endAt[c].retriggered) =>
      LET due == endAt[c].at + endAt[c].seconds * MsPerSecond
          pending == \E t \in timeouts : t.cameraID = c
      IN  /\ now < due => Triggered(c)
          /\ now > due => ~Triggered(c)
          /\ Triggered(c) <=> pending
          /\ \A t \in timeouts : t.cameraID = c => t.due = due

\* C4 witness: a camera whose end event arrived one second ago has just been
\* removed by its timer.
C4_Witness ==
  \E c \in Cameras :
    /\ endAt[c].present
    /\ ~endAt[c].retriggered
    /\ endAt[c].seconds = 1
    /\ now = endAt[c].at + MsPerSecond
    /\ out.op = "untriggerAction"
    /\ out.ev.cameraID = c
    /\ ~Triggered(c)

C3_ExecutionsOneSecondApart ==
  execGap.gap # Undefined => execGap.gap >= ThrottleWait

\* The interaction gate as the policy states it.
GatePermits ==
  /\ config # NoConfig
  /\ \/ config.interaction_mode = "all"
     \/ (config.interaction_mode = "active" /\ hasInteraction)
     \/ (config.interaction_mode = "inactive" /\ ~hasInteraction)

\* The trigger action ran for event ev in the handler that ran last.
Executed(ev) == out.executed = ev

\* The view a navigation command leads to.
ResultingView(nav) ==
  IF nav.cmd = "setViewDefault" THEN config.default ELSE nav.viewName

\* C5 (as stated): an execution of the trigger action for a low-fidelity
\* event issues no view change to anything but the live view.
C5_LowFidelityOnlyLive ==
  \A ev \in StartEvents :
    (Executed(ev) /\ ev.fidelity = "low") =>
      \A i \in 1..Len(out.navs) : ResultingView(out.navs[i]) = "live"

\* C5 (amended): an execution of the trigger action for a low-fidelity event
\* issues no view change to a clip or a snapshot: the command, if any, is the
\* live view of the event's camera (action 'live') or the default view of the
\* event's camera (action 'default'), whatever the default view is.
C5_LowFidelityLiveOrDefault ==
  \A ev \in StartEvents :
    (Executed(ev) /\ ev.fidelity = "low") =>
      \A i \in 1..Len(out.navs) :
        \/ config.trigger = "live"
             /\ out.navs[i] = SetViewByParameters("live", ev.cameraID)
        \/ config.trigger = "default"
             /\ out.navs[i] = SetViewDefault(ev.cameraID)

\* C5 witness: a low-fidelity event has led to the default view, which is
\* not the live view.
C5_Witness ==
  /\ out.executed # NoEvent
  /\ out.executed.fidelity = "low"
  /\ config # NoConfig
  /\ config.trigger = "default"
  /\ config.default = "clips"
  /\ out.navs = <<SetViewDefault("A")>>

\* The navigation decision of one execution, as the policy states it.
ExpectedNavigation(ev) ==
  LET action == IF config = NoConfig THEN "undefined" ELSE config.trigger
      toLive == \/ action = "live"
                \/ (action = "default" /\ config.default = "live")
  IN  CASE ev.fidelity = "high" /\ ~ev.snapshot /\ ~ev.clip /\ ~toLive -> <<>>
        [] ~GatePermits -> <<>>
        [] action = "live" ->
             <<[cmd |-> "setViewByParameters", viewName |-> "live",
                cameraID |-> ev.cameraID]>>
        [] action = "default" ->
             <<[cmd |-> "setViewDefault", viewName |-> "default",
                cameraID |-> ev.cameraID]>>
        [] action = "media" /\ ev.fidelity = "high" /\ ev.clip ->
             <<[cmd |-> "setViewByParameters", viewName |-> "clip",
                cameraID |-> ev.cameraID]>>
        [] action = "media" /\ ev.fidelity = "high" /\ ~ev.clip ->
             <<[cmd |-> "setViewByParameters", viewName |-> "snapshot",
                cameraID |-> ev.cameraID]>>
        [] OTHER -> <<>>

\* C6: the navigation commands of one execution of the trigger action are
\* the ones the decision table gives for the event, the configuration and the
\* gate; there is at most one.
C6_NavigationDecision ==
  \A ev \in StartEvents :
    Executed(ev) => (out.navs = ExpectedNavigation(ev) /\ Len(out.navs) <= 1)

\* C6 witness: a high-fidelity event with a clip and a snapshot has led to
\* the clip view under action 'media'.
C6_Witness ==
  /\ out.executed # NoEvent
  /\ out.executed.fidelity = "high"
  /\ out.executed.clip
  /\ out.executed.snapshot
  /\ config # NoConfig
  /\ config.trigger = "media"
  /\ out.navs = <<SetViewByParameters("clip", "A")>>

Published(m) ==
  IF MapKeys(m) = {} THEN NoTriggered ELSE TriggeredState(MapKeys(m))

\* A start event that handleCameraEvent did not discard.
AcceptedStart(o) == AcceptedEvent(o) /\ o.ev.type # "end"

\* C7: every start event that passes the guards of handleCameraEvent leaves
\* its camera in the triggered set and the set published (written once if it
\* changed, not at all otherwise), whether or not the gate permits and
\* whether or not the event is suppressed; when the gate refuses, no
\* navigation command is issued.
C7_TrackingNotGated ==
  [][ AcceptedStart(out') =>
        /\ MapHas(triggeredCameras', out'.ev.cameraID)
        /\ conditionState' = Published(triggeredCameras')
        /\ out'.writes =
             IF MapKeys(triggeredCameras') # MapKeys(triggeredCameras)
               THEN 1 ELSE 0
        /\ ~GatePermits' => out'.navs = <<>>
    ]_vars

\* C7 witness: a start event whose action ran while the gate refused has
\* been tracked and published, and nothing was commanded.
C7_Witness ==
  /\ AcceptedStart(out)
  /\ out.executed = out.ev
  /\ out.updates = 1
  /\ ~GatePermits
  /\ config # NoConfig
  /\ config.interaction_mode = "active"
  /\ out.writes = 1
  /\ conditionState = TriggeredState({"A"})
  /\ out.navs = <<>>

\* C8: no navigation command, of a trigger or of an untrigger, is issued
\* when the gate predicate is false; when it is true, the untrigger action
\* 'default' and the trigger actions 'live' and 'default' do command.
C8_InteractionGate ==
  /\ out.navs # <<>> => GatePermits
  /\ ( /\ GatePermits
       /\ \/ out.op = "untriggerAction" /\ config.untrigger = "default"
          \/ out.executed # NoEvent /\ config.trigger = "live"
          \/ out.executed # NoEvent /\ out.updates = 1 /\ config.trigger = "default" )
     => out.navs # <<>>

\* C8 witness: mode 'inactive' without an interaction has let an untrigger
\* navigate.
C8_Witness ==
  /\ out.op = "untriggerAction"
  /\ config # NoConfig
  /\ config.interaction_mode = "inactive"
  /\ ~hasInteraction
  /\ out.navs # <<>>

\* C9: whenever a camera's untrigger timer fires, afterwards the camera is
\* not in the triggered set, it has no entry in the timer map and no pending
\* timeout, the set is published (written once if it changed, not at all
\* otherwise) and one UI refresh has been requested.
C9_UntriggerBookkeeping ==
  [][ out'.op = "untriggerAction" =>
        /\ ~MapHas(triggeredCameras', out'.ev.cameraID)
        /\ out'.ev.cameraID \notin DOMAIN triggeredCameraTimers'
        /\ \A t \in timeouts' : t.cameraID # out'.ev.cameraID
        /\ conditionState' = Published(triggeredCameras')
        /\ out'.writes =
             IF MapKeys(triggeredCameras') # MapKeys(triggeredCameras)
               THEN 1 ELSE 0
        /\ out'.updates = 1
    ]_vars

\* C9 witness: a timer has fired while the gate refused the configured
\* navigation, and the camera is untriggered and the cleared set published.
C9_Witness ==
  /\ out.op = "untriggerAction"
  /\ config # NoConfig
  /\ config.untrigger = "default"
  /\ ~GatePermits
  /\ out.navs = <<>>
  /\ out.writes = 1
  /\ out.updates = 1
  /\ triggeredCameras = <<>>
  /\ conditionState = NoTriggered

\* C10: a firing untrigger timer commands the default view, without a
\* camera, exactly when there is a configuration, its untrigger action is
\* 'default' and the gate permits.
C10_UntriggerNavigation ==
  out.op = "untriggerAction" =>
    out.navs =
      IF config # NoConfig /\ config.untrigger = "default" /\ GatePermits
        THEN <<[cmd |-> "setViewDefault", viewName |-> "default",
                cameraID |-> NoCamera]>>
        ELSE <<>>

\* C10 witness: a timer has fired without a configuration, and nothing was
\* commanded.
C10_Witness ==
  /\ out.op = "untriggerAction"
  /\ config = NoConfig
  /\ out.navs = <<>>

\* C11: a call of handleCameraEvent without a configuration or without a
\* selected camera changes nothing, for every event: the triggered set, the
\* timer map, the pending timeouts, the published condition state, the
\* throttle (nothing enqueued) and the view are as before, and no navigation,
\* no write and no UI refresh is requested.
C11_SilentGuard ==
  [][ (out'.op = "handleCameraEvent" /\ (config = NoConfig \/ view = NoView)) =>
        /\ UNCHANGED << triggeredCameras, triggeredCameraTimers, timeouts,
                        conditionState, throttled, view, config >>
        /\ ~out'.accepted
        /\ out'.navs = <<>>
        /\ out'.writes = 0
        /\ out'.updates = 0
        /\ out'.executed = NoEvent
    ]_vars

\* C11 witness: a start event has been discarded for want of a selected
\* camera, with a configuration present and a camera triggered before.
C11_Witness ==
  /\ out.op = "handleCameraEvent"
  /\ out.ev.type = "new"
  /\ ~out.accepted
  /\ view = NoView
  /\ config # NoConfig
  /\ triggeredCameras # <<>>
  /\ ~MapHas(triggeredCameras, out.ev.cameraID)

\* C12: with a configuration and a selected camera, an event whose camera is
\* not a dependent of the selected camera is discarded when
\* filter_selected_camera is true (triggered set, timer map, timeouts,
\* condition state and throttle as before); every other event, and every
\* event when filter_selected_camera is false, is processed: an end event
\* arms its camera's timer, a start event puts its camera in the triggered
\* set and is handed to the throttled action.
C12_SelectedCameraFilter ==
  [][ (out'.op = "handleCameraEvent" /\ config # NoConfig /\ view # NoView) =>
        LET ev == out'.ev
            outside == ev.cameraID \notin getAllDependentCameras(view.camera)
        IN  IF config.filter_selected_camera /\ outside
              THEN /\ UNCHANGED << triggeredCameras, triggeredCameraTimers,
                                   timeouts, conditionState, throttled, view >>
                   /\ ~out'.accepted
                   /\ out'.executed = NoEvent
                   /\ out'.writes = 0
              ELSE /\ out'.accepted
                   /\ ev.type = "end" =>
                        /\ ev.cameraID \in DOMAIN triggeredCameraTimers'
                        /\ triggeredCameraTimers'[ev.cameraID] \in timeouts'
                   /\ ev.type # "end" =>
                        /\ MapHas(triggeredCameras', ev.cameraID)
                        /\ out'.executed = ev \/ throttled'.lastArgs = ev
    ]_vars

\* C12 witness: with B selected and the filter on, a start event for A has
\* been discarded.
C12_Witness ==
  /\ out.op = "handleCameraEvent"
  /\ out.ev.type = "new"
  /\ out.ev.cameraID = "A"
  /\ ~out.accepted
  /\ config # NoConfig
  /\ config.filter_selected_camera
  /\ view = ViewOf("B")
  /\ ~MapHas(triggeredCameras, "A")

TimersOf(c) == {t \in timeouts : t.cameraID = c}

\* C13: in every state a camera has at most one pending untrigger timer, the
\* one of its entry in the timer map, due untrigger_seconds after the last
\* accepted end event for it; and whenever a timer fires for a camera, it is
\* that one, at that instant, and none is left for the camera.
C13_SingleTimerPerCamera ==
  /\ [](\A c \in Cameras :
          /\ Cardinality(TimersOf(c)) <= 1
          /\ TimersOf(c) = IF c \in DOMAIN triggeredCameraTimers
                             THEN {triggeredCameraTimers[c]} ELSE {}
          /\ TimersOf(c) # {} <=> lastEnd[c].present
          /\ \A t \in TimersOf(c) :
               t.due = lastEnd[c].at + lastEnd[c].seconds * MsPerSecond)
  /\ [][ out'.op = "untriggerAction" =>
           LET c == out'.ev.cameraID
           IN  /\ lastEnd[c].present
               /\ now = lastEnd[c].at + lastEnd[c].seconds * MsPerSecond
               /\ \A t \in timeouts' : t.cameraID # c
               /\ c \notin DOMAIN triggeredCameraTimers'
      ]_vars

\* C13 witness: an end event has replaced a camera's pending timer by one
\* that is due later.
C13_Witness ==
  \E c \in Cameras :
    /\ AcceptedEvent(out)
    /\ out.ev.type = "end"
    /\ out.ev.cameraID = c
    /\ lastEnd[c].present
    /\ lastEnd[c].superseding
    /\ lastEnd[c].at = now
    /\ TimersOf(c) = {[cameraID |-> c, due |-> now + MsPerSecond]}

\* C14: a call of handleCameraEvent writes the condition state at most
\* once; it writes nothing, and the published value stays, when the set of
\* triggered cameras it results in equals the value published before; when
\* it writes, it writes that set, which differs from the value before.
C14_NoRedundantPublication ==
  [][ out'.op = "handleCameraEvent" =>
        /\ out'.writes <= 1
        /\ Published(triggeredCameras') = conditionState =>
             (out'.writes = 0 /\ conditionState' = conditionState)
        /\ out'.writes = 1 =>
             /\ conditionState' = Published(triggeredCameras')
             /\ conditionState' # conditionState
    ]_vars

\* C14 witness: a start event for a camera that was triggered already, with
\* both cameras triggered, has written nothing.
C14_Witness ==
  /\ AcceptedStart(out)
  /\ out.writes = 0
  /\ now > 0
  /\ MapKeys(triggeredCameras) = Cameras
  /\ conditionState = TriggeredState(Cameras)

\* The entries of the Map for camera c.
EntriesOf(m, c) == {i \in 1..Len(m) : m[i].id = c}

\* C15: no camera is in the triggered set twice; after an accepted start
\* event for C the set has one entry for C, dated with the arrival of the
\* event, its IDs are the IDs before and C (the same whether C was triggered
\* before or not), and the other cameras' entries are as before.
C15_IdempotentMembership ==
  /\ [](\A c \in Cameras : Cardinality(EntriesOf(triggeredCameras, c)) <= 1)
  /\ [][ AcceptedStart(out') =>
           LET c == out'.ev.cameraID
               m == triggeredCameras'
           IN  /\ Cardinality(EntriesOf(m, c)) = 1
               /\ \A i \in EntriesOf(m, c) : m[i].date = now
               /\ MapKeys(m) = MapKeys(triggeredCameras) \cup {c}
               /\ \A i \in 1..Len(triggeredCameras) :
                    triggeredCameras[i].id # c =>
                      \E j \in 1..Len(m) : m[j] = triggeredCameras[i]
      ]_vars

\* C15 witness: A was triggered before B, and a further start event for A
\* has dated A's entry, still the only one, with its arrival, after B's.
C15_Witness ==
  /\ AcceptedStart(out)
  /\ out.ev.cameraID = "A"
  /\ Len(triggeredCameras) = 2
  /\ triggeredCameras[1] = [id |-> "A", date |-> now]
  /\ triggeredCameras[2].id = "B"
  /\ triggeredCameras[2].date < now

\* C16 (as stated): an accepted end event for a camera that is not in the
\* triggered set leaves the triggered set and the published condition state
\* unchanged when it is handled, and so does the timer it armed when it
\* fires.
C16_EndForUntriggeredCamera ==
  [][ /\ ( /\ AcceptedEvent(out')
           /\ out'.ev.type = "end"
           /\ ~MapHas(triggeredCameras, out'.ev.cameraID) )
         => UNCHANGED << triggeredCameras, conditionState >>
      /\ ( /\ out'.op = "untriggerAction"
           /\ lastEnd[out'.ev.cameraID].present
           /\ lastEnd[out'.ev.cameraID].untriggered )
         => UNCHANGED << triggeredCameras, conditionState >>
    ]_vars

\* The date recorded for camera c in the Map m.
DateOf(m, c) == m[CHOOSE i \in 1..Len(m) : m[i].id = c].date

\* The result of getMostRecentlyTriggeredCameraID() is null for the empty
\* set, and otherwise a triggered camera no other triggered camera has a
\* later date than.
MostRecentIsLatest ==
  IF triggeredCameras = <<>>
    THEN getMostRecentlyTriggeredCameraID = NoCamera
    ELSE /\ getMostRecentlyTriggeredCameraID \in MapKeys(triggeredCameras)
         /\ \A i \in 1..Len(triggeredCameras) :
              triggeredCameras[i].date
                <= DateOf(triggeredCameras, getMostRecentlyTriggeredCameraID)

\* An accepted start event re-triggers camera c, which was triggered with
\* an older date than another triggered camera.
RetriggersOlder(c) ==
  /\ AcceptedStart(out')
  /\ out'.ev.cameraID = c
  /\ MapHas(triggeredCameras, c)
  /\ \E i \in 1..Len(triggeredCameras) :
       triggeredCameras[i].date > DateOf(triggeredCameras, c)

C18_QueriesPureAndIsolated ==
  /\ [](isTriggered <=> getTriggeredCameraIDs # {})
  /\ [][ out'.op = "query" =>
           /\ UNCHANGED << triggeredCameras, triggeredCameraTimers, timeouts,
                           throttled, conditionState, view, config,
                           hasInteraction >>
           /\ out'.ev.ids = {triggeredCameras[i].id : i \in 1..Len(triggeredCameras)}
           /\ returned'.ids = out'.ev.ids
           /\ out'.ev.isTriggered = (triggeredCameras # <<>>)
           /\ out'.ev.mostRecent = getMostRecentlyTriggeredCameraID
      ]_vars
  /\ [][ out'.op = "mutateReturned" =>
           /\ UNCHANGED << triggeredCameras, triggeredCameraTimers, timeouts,
                           throttled, conditionState, view, config,
                           hasInteraction >>
           /\ getTriggeredCameraIDs' = getTriggeredCameraIDs
           /\ isTriggered' = isTriggered
      ]_vars

\* C18 witness: the caller has emptied the Set it was given while cameras
\* are triggered, and the engine still has them.
C18_Witness ==
  /\ out.op = "mutateReturned"
  /\ returned.present
  /\ returned.ids = {}
  /\ getTriggeredCameraIDs = Cameras
  /\ isTriggered

DecisionAt(ev, cfg, interaction) ==
  LET toLive == \/ cfg.trigger = "live"
                \/ (cfg.trigger = "default" /\ cfg.default = "live")
      gate == \/ cfg.interaction_mode = "all"
              \/ (cfg.interaction_mode = "active" /\ interaction)
              \/ (cfg.interaction_mode = "inactive" /\ ~interaction)
  IN  IF ev.fidelity = "high" /\ ~ev.snapshot /\ ~ev.clip /\ ~toLive
        THEN [navigation |-> "none", refresh |-> FALSE]
      ELSE IF ~gate
        THEN [navigation |-> "none", refresh |-> TRUE]
      ELSE IF cfg.trigger = "live"
        THEN [navigation |-> "live", refresh |-> TRUE]
      ELSE IF cfg.trigger = "default"
        THEN [navigation |-> "default", refresh |-> TRUE]
      ELSE IF cfg.trigger = "media" /\ ev.fidelity = "high"
        THEN [ navigation |-> IF ev.clip THEN "clip" ELSE "snapshot",
               refresh |-> TRUE ]
      ELSE [navigation |-> "none", refresh |-> TRUE]

\* What the handler that ran last did, in the terms of DecisionAt.
DecisionTaken ==
  [ navigation |-> IF out.navs = <<>> THEN "none" ELSE out.navs[1].viewName,
    refresh |-> out.updates = 1 ]

\* C20: a deferred execution of the trigger action (at the throttle's
\* timeout) decides with the trigger action, the default view, the
\* interaction mode and the interaction state of the instant it runs, for
\* the event enqueued last.
C20_FireTimeEvaluation ==
  (out.op = "timerExpired" /\ out.executed # NoEvent) =>
    /\ DecisionTaken = DecisionAt(out.executed, config, hasInteraction)
    /\ Len(out.navs) <= 1
    /\ \A i \in 1..Len(out.navs) : out.navs[i].cameraID = out.executed.cameraID

\* C20 witness: between the arrival of an event and its deferred execution
\* the trigger action and the interaction state have changed, and the
\* execution has decided otherwise than it would have on arrival.
C20_Witness ==
  /\ out.op = "timerExpired"
  /\ out.executed # NoEvent
  /\ queued.present
  /\ queued.config.trigger # config.trigger
  /\ queued.hasInteraction # hasInteraction
  /\ DecisionAt(out.executed, queued.config, queued.hasInteraction)
       # DecisionAt(out.executed, config, hasInteraction)
  /\ DecisionTaken = DecisionAt(out.executed, config, hasInteraction)
  /\ out.navs # <<>>

\* The positions of effect e in the sequence of effects s.
PositionsOf(s, e) == {i \in 1..Len(s) : s[i] = e}

NavigationCommands == {"setViewByParameters", "setViewDefault"}

\* The no-media rule suppresses an execution for event ev.
SuppressedByNoMediaRule(ev) ==
  /\ ev.fidelity = "high"
  /\ ~ev.snapshot
  /\ ~ev.clip
  /\ ~( /\ config # NoConfig
        /\ \/ config.trigger = "live"
           \/ (config.trigger = "default" /\ config.default = "live") )

\* C21: an execution of the trigger action that the no-media rule does not
\* suppress requests one UI refresh, as its last effect and so after the
\* navigation command if there is one, whatever the gate and the trigger
\* action; a suppressed execution requests none.
C21_RefreshAfterAction ==
  \A ev \in StartEvents :
    Executed(ev) =>
      LET effects == effectsOf(out)
          refreshes == PositionsOf(effects, "update")
      IN  IF SuppressedByNoMediaRule(ev)
            THEN out.updates = 0 /\ refreshes = {} /\ out.navs = <<>>
            ELSE /\ out.updates = 1
                 /\ refreshes = {Len(effects)}
                 /\ \A i \in 1..Len(effects) :
                      effects[i] \in NavigationCommands =>
                        \A j \in refreshes : i < j

\* C21 witness: with trigger action 'none' and a refusing gate an execution
\* has requested its refresh and nothing else.
C21_Witness ==
  /\ out.executed # NoEvent
  /\ out.executed.fidelity = "low"
  /\ config # NoConfig
  /\ config.trigger = "none"
  /\ ~GatePermits
  /\ out.navs = <<>>
  /\ out.updates = 1
  /\ out.op = "timerExpired"
  /\ effectsOf(out) = <<"update">>

\* C22: the start event accepted last is executed exactly once, and no later
\* than one second after it arrived: it has been executed at most once; as
\* long as it has not been executed it is the event the throttle holds, with
\* a timeout due within the second; and once the second has passed it has
\* been executed.
C22_LatestEventNotLost ==
  Len(burst) > 0 =>
    LET e == burst[Len(burst)]
    IN  /\ e.execs <= 1
        /\ e.execs = 0 =>
             /\ throttled.lastArgs # NoEvent
             /\ throttled.lastArgs.cameraID = e.cameraID
             /\ throttled.timerId # Undefined
             /\ throttled.timerId <= e.at + ThrottleWait
             /\ now <= throttled.timerId
        /\ now > e.at + ThrottleWait => e.execs = 1

\* C22 witness: the third event of a burst, for another camera than the
\* second, has been executed at the throttle's timeout, after it arrived.
C22_Witness ==
  /\ Len(burst) = 3
  /\ burst[3].cameraID # burst[2].cameraID
  /\ burst[3].execs = 1
  /\ burst[2].execs = 0
  /\ burst[3].at < now
  /\ out.op = "timerExpired"
  /\ out.executed # NoEvent
  /\ out.executed.cameraID = burst[3].cameraID

\* C23: handling an accepted start event puts the camera in the triggered
\* set first, then publishes the set (which so holds the camera), then hands
\* the event to the throttled action, whose navigation, if it runs at once,
\* comes last; and when a navigation is commanded for an event, at once or
\* deferred, the condition state held the event's camera when the event was
\* handed over.
C23_OrderInsideOneEvent ==
  /\ [][ AcceptedStart(out') =>
           LET c == out'.ev.cameraID
               effects == effectsOf(out')
           IN  /\ MapHas(triggeredCameras', c)
               /\ conditionState'.present
               /\ c \in conditionState'.ids
               /\ PositionsOf(effects, "set") = {1}
               /\ Cardinality(PositionsOf(effects, "throttle")) = 1
               /\ \A i \in PositionsOf(effects, "setState") :
                    \A j \in PositionsOf(effects, "throttle") : 1 < i /\ i < j
               /\ \A i \in 1..Len(effects) :
                    effects[i] \in NavigationCommands =>
                      \A j \in PositionsOf(effects, "throttle") : j < i
      ]_vars
  /\ []( (out.executed # NoEvent /\ out.navs # <<>>) =>
           IF out.op = "handleCameraEvent"
             THEN /\ conditionState.present
                  /\ out.executed.cameraID \in conditionState.ids
             ELSE /\ queued.present
                  /\ queued.published.present
                  /\ out.executed.cameraID \in queued.published.ids )

\* C23 witness: a start event has been tracked, published and handed over,
\* and its navigation has followed in the same call.
C23_Witness ==
  /\ AcceptedStart(out)
  /\ out.executed = out.ev
  /\ effectsOf(out) = <<"set", "setState", "throttle", "setViewDefault", "update">>
  /\ conditionState = TriggeredState({"A"})

\* C24: after every handler the published 'triggered' value is the set of
\* keys of the triggered set when there are any, and is cleared, never an
\* empty set, when there are none.
C24_PublishedMirrorsEngine ==
  /\ conditionState.present =>
       /\ conditionState.ids # {}
       /\ conditionState.ids = {triggeredCameras[i].id : i \in 1..Len(triggeredCameras)}
  /\ ~conditionState.present => triggeredCameras = <<>>

\* C24 witness: the timer of A has fired while B was triggered too, and the
\* set of B alone has been published.
C24_Witness ==
  /\ out.op = "untriggerAction"
  /\ out.ev.cameraID = "A"
  /\ out.writes = 1
  /\ conditionState = TriggeredState({"B"})
  /\ Len(triggeredCameras) = 1
  /\ triggeredCameras[1].id = "B"

\* handleCameraEvent has discarded an end event for a triggered camera.
DiscardedEndForTriggered(c) ==
  /\ out'.op = "handleCameraEvent"
  /\ ~out'.accepted
  /\ out'.ev.type = "end"
  /\ out'.ev.cameraID = c
  /\ MapHas(triggeredCameras, c)

\* Camera c leaves the triggered set.
Leaves(c) == MapHas(triggeredCameras, c) /\ ~MapHas(triggeredCameras', c)

\* An end event for a triggered camera is discarded exactly when the guards
\* say so, and then arms no timer and changes neither the timers nor the
\* triggered set.
DiscardedEndArmsNoTimer ==
  [][ \A c \in Cameras :
        ( /\ out'.op = "handleCameraEvent"
          /\ out'.ev.type = "end"
          /\ out'.ev.cameraID = c
          /\ MapHas(triggeredCameras, c) )
        => IF \/ config = NoConfig
              \/ view = NoView
              \/ /\ config.filter_selected_camera
                 /\ c \notin getAllDependentCameras(view.camera)
             THEN /\ ~out'.accepted
                  /\ UNCHANGED << triggeredCameras, triggeredCameraTimers,
                                  timeouts, conditionState >>
             ELSE out'.accepted
    ]_vars

\* C25 (as stated): an end event for a triggered camera C that the guards
\* discard arms no timer, and C leaves the triggered set only when the timer
\* of an end event accepted after the discarded one fires.
C25_GuardedEndEvents ==
  /\ DiscardedEndArmsNoTimer
  /\ [][ \A c \in Cameras :
           Leaves(c) =>
             /\ out'.op = "untriggerAction"
             /\ out'.ev.cameraID = c
             /\ lastEnd[c].present
             /\ ~lastEnd[c].stale ]_vars

\* C25 (amended): an end event for a triggered camera C that the guards
\* discard arms no timer and leaves a pending timer of C as it is; C leaves
\* the triggered set only when the timer of an accepted end event fires, so,
\* if no timer of C was pending at the discarded event, of one accepted after
\* it.
C25_GuardedEndEventsNoPendingTimer ==
  /\ DiscardedEndArmsNoTimer
  /\ [](\A c \in Cameras : lastEnd[c].present <=> TimersOf(c) # {})
  /\ [][ \A c \in Cameras :
           /\ Leaves(c) =>
                /\ out'.op = "untriggerAction"
                /\ out'.ev.cameraID = c
                /\ lastEnd[c].present
           /\ (DiscardedEndForTriggered(c) /\ TimersOf(c) = {}) =>
                ~lastEnd'[c].present ]_vars

\* C25 witness: after the selected camera changed to B, with the filter on,
\* an end event for the triggered A, which has no timer, has been discarded.
C25_Witness ==
  /\ out.op = "handleCameraEvent"
  /\ out.ev.type = "end"
  /\ out.ev.cameraID = "A"
  /\ ~out.accepted
  /\ config # NoConfig
  /\ config.filter_selected_camera
  /\ view = ViewOf("B")
  /\ MapHas(triggeredCameras, "A")
  /\ TimersOf("A") = {}
  /\ ~lastEnd["A"].present

\* C26 (as stated): whenever the trigger action commands a navigation for
\* camera C, C is in the triggered set.
C26_NavigationTargetsTriggered ==
  (out.executed # NoEvent /\ out.navs # <<>>) =>
    \A i \in 1..Len(out.navs) : MapHas(triggeredCameras, out.navs[i].cameraID)

\* C26 (amended): a navigation the trigger action commands during the call
\* that accepted the event goes to the event's camera, which is in the
\* triggered set, dated with that instant; a deferred execution does not
\* consult the triggered set: for an event whose camera has been untriggered
\* since, it commands what the decision table gives.
C26_NavigationTargetsAccepted ==
  /\ (out.op = "handleCameraEvent" /\ out.executed # NoEvent /\ out.navs # <<>>) =>
       \A i \in 1..Len(out.navs) :
         /\ out.navs[i].cameraID = out.ev.cameraID
         /\ MapHas(triggeredCameras, out.navs[i].cameraID)
         /\ DateOf(triggeredCameras, out.navs[i].cameraID) = now
  /\ ( /\ out.op = "timerExpired"
       /\ out.executed # NoEvent
       /\ ~MapHas(triggeredCameras, out.executed.cameraID) ) =>
       /\ out.navs = ExpectedNavigation(out.executed)
       /\ out.updates = IF SuppressedByNoMediaRule(out.executed) THEN 0 ELSE 1

\* C26 witness: A's timer has fired between the arrival of A's start event
\* and its deferred execution, which has navigated to the untriggered A.
C26_Witness ==
  /\ out.op = "timerExpired"
  /\ out.executed # NoEvent
  /\ out.executed.cameraID = "A"
  /\ triggeredCameras = <<>>
  /\ conditionState = NoTriggered
  /\ out.navs = <<SetViewByParameters("live", "A")>>

\* C27: when a camera's timer fires with untrigger action 'default' and a
\* permitting gate, the default view is commanded, before the camera is
\* deleted, whether or not the camera was in the triggered set and whether or
\* not other cameras stay in it.
C27_UntriggerIgnoresRemainingState ==
  [][ ( /\ out'.op = "untriggerAction"
        /\ config # NoConfig
        /\ config.untrigger = "default"
        /\ GatePermits )
      => \A wasTriggered, othersRemain \in BOOLEAN :
           ( /\ wasTriggered = MapHas(triggeredCameras, out'.ev.cameraID)
             /\ othersRemain = (triggeredCameras' # <<>>) )
           => /\ out'.navs = <<[cmd |-> "setViewDefault", viewName |-> "default",
                                cameraID |-> NoCamera]>>
              /\ effectsOf(out')[1] = "setViewDefault"
              /\ PositionsOf(effectsOf(out'), "delete") = {2}
    ]_vars

\* C27 witness: the timer of a camera that was not triggered has fired while
\* the other camera was triggered, and the default view has been commanded.
C27_Witness ==
  /\ out.op = "untriggerAction"
  /\ out.ev.cameraID = "B"
  /\ out.writes = 0
  /\ MapKeys(triggeredCameras) = {"A"}
  /\ conditionState = TriggeredState({"A"})
  /\ out.navs = <<SetViewDefault(NoCamera)>>

\* C28: an accepted start event that is not executed at once takes the
\* throttle's pending slot, whatever was in it and whatever the event is;
\* the deferred execution runs the event in the slot and empties it; and
\* when the no-media rule suppresses that event, no navigation and no UI
\* refresh is requested, so the navigation of a replaced event is not
\* performed.
C28_PendingSlotHoldsLatest ==
  /\ [][ (AcceptedStart(out') /\ out'.executed = NoEvent) =>
           throttled'.lastArgs = out'.ev ]_vars
  /\ [][ (out'.op = "timerExpired" /\ out'.executed # NoEvent) =>
           /\ out'.executed = throttled.lastArgs
           /\ throttled'.lastArgs = NoEvent
           /\ SuppressedByNoMediaRule(out'.executed) =>
                /\ out'.navs = <<>>
                /\ out'.updates = 0
                /\ view' = view ]_vars

\* C28 witness: a pending event with a clip, which would have led to the
\* default view, has been replaced by an event without media, and the
\* deferred execution has requested nothing.
C28_Witness ==
  /\ out.op = "timerExpired"
  /\ out.executed # NoEvent
  /\ ~out.executed.clip
  /\ queued.present
  /\ queued.replaced # NoEvent
  /\ queued.replaced.clip
  /\ config.trigger = "default"
  /\ config.default = "clips"
  /\ GatePermits
  /\ DecisionAt(queued.replaced, config, hasInteraction).navigation = "default"
  /\ out.navs = <<>>
  /\ out.updates = 0
  /\ throttled.lastArgs = NoEvent

\* The elements of a sequence.
ElementsOf(s) == {s[i] : i \in 1..Len(s)}

\* No element occurs twice.
NoDuplicates(s) == \A i, j \in 1..Len(s) : s[i] = s[j] => i = j

\* The engine objects the last call of the factory returned.
Yielded ==
  (ElementsOf(<<factory.returned.engine>>) \ {NoEngine})
  \cup {factory.returned.entries[i].engine :
          i \in 1..Len(factory.returned.entries)}
  \cup ElementsOf(factory.returned.array)

\* The requested camera IDs of the last call that have a configuration in
\* the Map with a Frigate camera name.
ResolvableIDs ==
  {id \in ElementsOf(factory.args.cameraIDs) :
     \E i \in 1..Len(factory.args.cameras) :
       /\ factory.args.cameras[i].id = id
       /\ factory.args.cameras[i].config.camera_name \in FrigateCameraNames}

\* C29: whatever calls a CameraManagerEngineFactory has served, it has
\* constructed at most one engine per engine type, an engine it holds is
\* never replaced, and every engine a call returns is the one it holds for
\* that type; getEngineForCamera returns null for an absent configuration
\* and for one without a Frigate camera name; getEnginesForCameraIDs
\* returns null exactly when no requested ID resolves to an engine, and
\* otherwise a Map in which every resolvable requested ID is in the set of
\* exactly one engine and no other ID is in any set.
C29_EngineRegistry ==
  /\ \A i, j \in 1..Len(factory.constructed) :
       factory.constructed[i].engine = factory.constructed[j].engine => i = j
  /\ \A e \in EngineTypes :
       factory.before[e] # NoEngine => factory.engines[e] = factory.before[e]
  /\ \A engine \in Yielded :
       /\ engine \in ElementsOf(factory.constructed)
       /\ factory.engines[engine.engine] = engine
  /\ factory.op = "getEngineForCamera" =>
       ( ( \/ factory.args.cameraConfig = NoCameraConfig
           \/ factory.args.cameraConfig.camera_name \in {"", NoCameraName} )
         => factory.returned.engine = NoEngine )
  /\ factory.op = "getEnginesForCameraIDs" =>
       /\ factory.returned.kind \in {"null", "map"}
       /\ factory.returned.kind = "null" <=> ResolvableIDs = {}
       /\ factory.returned.kind = "map" =>
            LET entries == factory.returned.entries
                EntriesWith(id) ==
                  {i \in 1..Len(entries) : id \in entries[i].cameraIDs}
            IN  /\ \A i, j \in 1..Len(entries) :
                     entries[i].engine = entries[j].engine => i = j
                /\ \A i \in 1..Len(entries) :
                     /\ entries[i].engine # NoEngine
                     /\ entries[i].cameraIDs \subseteq ResolvableIDs
                /\ \A id \in ResolvableIDs :
                     Cardinality(EntriesWith(id)) = 1

\* C29 witness: getEnginesForCameraIDs is asked for two cameras of the Map,
\* one with a Frigate camera name and one without, when the factory holds
\* a Frigate engine already: the Map returned has that engine with the one
\* camera.
C29_Witness ==
  /\ factory.op = "getEnginesForCameraIDs"
  /\ factory.args.cameraIDs = <<"A", "B">>
  /\ factory.args.cameras =
       << [id |-> "B", config |-> [present |-> TRUE, camera_name |-> ""]],
          [id |-> "A", config |-> [present |-> TRUE,
                                   camera_name |-> "camera.front_door"]] >>
  /\ factory.before[Engine_Frigate] = EngineInstance(Engine_Frigate, 1)
  /\ factory.returned.kind = "map"
  /\ factory.returned.entries =
       << [engine |-> EngineInstance(Engine_Frigate, 1),
           cameraIDs |-> {"A"}] >>
  /\ factory.constructed = <<EngineInstance(Engine_Frigate, 1)>>

\* The positions of a sequence whose element is not e.
PositionsNot(s, e) == {i \in 1..Len(s) : s[i] # e}

\* The k-th smallest number of a set of numbers.
KthOf(S, k) == CHOOSE i \in S : Cardinality({j \in S : j < i}) = k - 1

\* C30: the dynamic button list of a MenuButtonController never holds a
\* button object twice; adding a button that is in the list leaves the
\* list as it was; removing a button leaves the other buttons, in the
\* order they had; and calculateButtons returns the built-in buttons
\* followed by the dynamic buttons, styled, in the order of the list, and
\* leaves the list as it was.
C30_DynamicMenuButtons ==
  /\ NoDuplicates(menu.dynamicMenuButtons)
  /\ ( /\ menu.op = "addDynamicMenuButton"
       /\ menu.button \in ElementsOf(menu.before) ) =>
       menu.dynamicMenuButtons = menu.before
  /\ menu.op = "removeDynamicMenuButton" =>
       LET others == PositionsNot(menu.before, menu.button)
       IN  /\ Len(menu.dynamicMenuButtons) = Cardinality(others)
           /\ \A k \in 1..Len(menu.dynamicMenuButtons) :
                menu.dynamicMenuButtons[k] = menu.before[KthOf(others, k)]
  /\ menu.op = "calculateButtons" =>
       LET n == Len(builtInButtons(menu.env))
       IN  /\ menu.dynamicMenuButtons = menu.before
           /\ Len(menu.returned) = n + Len(menu.dynamicMenuButtons)
           /\ SubSeq(menu.returned, 1, n) = builtInButtons(menu.env)
           /\ \A i \in 1..Len(menu.dynamicMenuButtons) :
                /\ menu.returned[n + i].title =
                     menu.dynamicMenuButtons[i].title
                /\ menu.returned[n + i].tap_action =
                     menu.dynamicMenuButtons[i].tap_action

\* C30 witness: of three buttons in the list the one in the middle is
\* removed; the list keeps the first and the last, two objects that
\* contain the same, in their order.
C30_Witness ==
  /\ menu.op = "removeDynamicMenuButton"
  /\ Len(menu.before) = 3
  /\ menu.before[1].ref = "b3"
  /\ menu.before[2].ref = "b2"
  /\ menu.before[3].ref = "b1"
  /\ menu.button = menu.before[2]
  /\ menu.dynamicMenuButtons = <<menu.before[1], menu.before[3]>>

====
